---- MODULE Spec2Model ----
(***************************************************************************)
(* A model of the boxsql storage engine: the page layer (page_file.rs,     *)
(* page_header.rs, page_id.rs), the slotted heap page (heap_page.rs) and   *)
(* the file-system disk manager (file_system.rs).                          *)
(*                                                                         *)
(* Representation.  A page buffer [u8; PAGE_SIZE] and a byte slice are     *)
(* sequences of bytes; the byte at offset k is At(b, k) = b[k + 1].  TLC's *)
(* integers are 32-bit signed, so a u32 that uses all its bits (the CRC)   *)
(* is kept as its four base-256 digits, least significant first, and a u64 *)
(* as a record of two u32 halves [hi, lo].  The source's PAGE_SIZE is 8192;*)
(* the model checks a page of PAGE_SIZE bytes with the same 32-byte header *)
(* and the same 4-byte slots, scaled so that a page fills up within a few  *)
(* inserts.                                                                *)
(***************************************************************************)
EXTENDS Integers, Sequences, FiniteSets, TLC

\* ------------------------------------------------------------- bounds
PAGE_SIZE == 47        \* bytes in a page (8192 in the source)
MaxTupleLen == 2       \* longest tuple passed to insert_tuple
MaxSlotArg == 3        \* largest slot number passed to delete_tuple
MaxPages == 2          \* allocate_page is called on files shorter than this many pages
MaxAllocs == 3         \* allocate_page calls made by the concurrent allocators
MaxQueries == 1        \* queries executed between two changes of the data directory
MaxItems == 3          \* items of a select list handed to the planner

\* ---------------------------------------------------- program constants
PageHeader_LEN == 32
Slot_SIZE == 4
Heap == 1
Index == 2

U16 == 65536
Byte == 0..255

\* ------------------------------------------------------ integer helpers
\* u16 arithmetic as the release build computes it (wrapping)
Sub16(a, b) == (a - b + U16) % U16
Add16(a, b) == (a + b) % U16
Mul16(a, b) == (a * b) % U16
Max(a, b) == IF a >= b THEN a ELSE b
\* let v = ..; body(v): the value is computed once and named in the body
Let(v, body(_)) == body(v)

\* u16::to_le_bytes / u16::from_le_bytes
u16_to_le_bytes(v) == << v % 256, (v \div 256) % 256 >>
u16_from_le_bytes(s) == s[1] + 256 * s[2]

\* u32 (small values only: file ids, page numbers, lsn halves)
u32_to_le_bytes(v) ==
    << v % 256, (v \div 256) % 256, (v \div 65536) % 256, (v \div 16777216) % 256 >>
u32_from_le_bytes(s) == s[1] + 256 * s[2] + 65536 * s[3] + 16777216 * s[4]

\* u64 as [hi, lo]: to_le_bytes puts the low half first
u64_to_le_bytes(v) == u32_to_le_bytes(v.lo) \o u32_to_le_bytes(v.hi)
u64_from_le_bytes(s) ==
    [hi |-> u32_from_le_bytes(SubSeq(s, 5, 8)), lo |-> u32_from_le_bytes(SubSeq(s, 1, 4))]

\* ---------------------------------------------------------- byte slices
\* the byte at offset i of a buffer or slice
At(b, i) == b[i + 1]
\* &buf[lo..hi]
Slice(b, lo, hi) == SubSeq(b, lo + 1, hi)
\* buf[lo..lo+len(s)].copy_from_slice(s)
CopyFromSlice(b, lo, s) == SubSeq(b, 1, lo) \o s \o SubSeq(b, lo + Len(s) + 1, Len(b))
\* n bytes of value v
Repeat(n, v) == [k \in 1..n |-> v]
\* buf[lo..hi].fill(v)
Fill(b, lo, hi, v) == CopyFromSlice(b, lo, Repeat(hi - lo, v))
Zeros(n) == Repeat(n, 0)

\* -------------------------------------------------------------- CRC-32
\* crc32fast::Hasher: CRC-32/IEEE, reflected, polynomial 0xEDB88320,
\* initial value and final xor 0xFFFFFFFF, one table lookup per byte.
\* a XOR b for 4-bit a, b: Xor4[a + 1][b + 1]
Xor4 == <<
    <<0, 1, 2, 3, 4, 5, 6, 7, 8, 9, 10, 11, 12, 13, 14, 15>>,
    <<1, 0, 3, 2, 5, 4, 7, 6, 9, 8, 11, 10, 13, 12, 15, 14>>,
    <<2, 3, 0, 1, 6, 7, 4, 5, 10, 11, 8, 9, 14, 15, 12, 13>>,
    <<3, 2, 1, 0, 7, 6, 5, 4, 11, 10, 9, 8, 15, 14, 13, 12>>,
    <<4, 5, 6, 7, 0, 1, 2, 3, 12, 13, 14, 15, 8, 9, 10, 11>>,
    <<5, 4, 7, 6, 1, 0, 3, 2, 13, 12, 15, 14, 9, 8, 11, 10>>,
    <<6, 7, 4, 5, 2, 3, 0, 1, 14, 15, 12, 13, 10, 11, 8, 9>>,
    <<7, 6, 5, 4, 3, 2, 1, 0, 15, 14, 13, 12, 11, 10, 9, 8>>,
    <<8, 9, 10, 11, 12, 13, 14, 15, 0, 1, 2, 3, 4, 5, 6, 7>>,
    <<9, 8, 11, 10, 13, 12, 15, 14, 1, 0, 3, 2, 5, 4, 7, 6>>,
    <<10, 11, 8, 9, 14, 15, 12, 13, 2, 3, 0, 1, 6, 7, 4, 5>>,
    <<11, 10, 9, 8, 15, 14, 13, 12, 3, 2, 1, 0, 7, 6, 5, 4>>,
    <<12, 13, 14, 15, 8, 9, 10, 11, 4, 5, 6, 7, 0, 1, 2, 3>>,
    <<13, 12, 15, 14, 9, 8, 11, 10, 5, 4, 7, 6, 1, 0, 3, 2>>,
    <<14, 15, 12, 13, 10, 11, 8, 9, 6, 7, 4, 5, 2, 3, 0, 1>>,
    <<15, 14, 13, 12, 11, 10, 9, 8, 7, 6, 5, 4, 3, 2, 1, 0>> >>
\* a XOR b for bytes: Xor8Table[a + 1][b + 1], tabulated from Xor4 (SubSeq of the
\* whole of a sequence is that sequence)
Xor8Table ==
    SubSeq([a1 \in 1..256 |->
              SubSeq([b1 \in 1..256 |->
                        Xor4[((a1 - 1) % 16) + 1][((b1 - 1) % 16) + 1]
                        + 16 * Xor4[((a1 - 1) \div 16) + 1][((b1 - 1) \div 16) + 1]],
                     1, 256)],
           1, 256)
Xor8(a, b) == Xor8Table[a + 1][b + 1]
XorW(a, b) == << Xor8(a[1], b[1]), Xor8(a[2], b[2]), Xor8(a[3], b[3]), Xor8(a[4], b[4]) >>
CrcOnes == << 255, 255, 255, 255 >>
\* the byte table of the reflected polynomial 0xEDB88320; entry n is CrcTable[n + 1]
CrcTable == <<
    <<0, 0, 0, 0>>, <<150, 48, 7, 119>>, <<44, 97, 14, 238>>, <<186, 81, 9, 153>>,
    <<25, 196, 109, 7>>, <<143, 244, 106, 112>>, <<53, 165, 99, 233>>, <<163, 149, 100, 158>>,
    <<50, 136, 219, 14>>, <<164, 184, 220, 121>>, <<30, 233, 213, 224>>, <<136, 217, 210, 151>>,
    <<43, 76, 182, 9>>, <<189, 124, 177, 126>>, <<7, 45, 184, 231>>, <<145, 29, 191, 144>>,
    <<100, 16, 183, 29>>, <<242, 32, 176, 106>>, <<72, 113, 185, 243>>, <<222, 65, 190, 132>>,
    <<125, 212, 218, 26>>, <<235, 228, 221, 109>>, <<81, 181, 212, 244>>, <<199, 133, 211, 131>>,
    <<86, 152, 108, 19>>, <<192, 168, 107, 100>>, <<122, 249, 98, 253>>, <<236, 201, 101, 138>>,
    <<79, 92, 1, 20>>, <<217, 108, 6, 99>>, <<99, 61, 15, 250>>, <<245, 13, 8, 141>>,
    <<200, 32, 110, 59>>, <<94, 16, 105, 76>>, <<228, 65, 96, 213>>, <<114, 113, 103, 162>>,
    <<209, 228, 3, 60>>, <<71, 212, 4, 75>>, <<253, 133, 13, 210>>, <<107, 181, 10, 165>>,
    <<250, 168, 181, 53>>, <<108, 152, 178, 66>>, <<214, 201, 187, 219>>, <<64, 249, 188, 172>>,
    <<227, 108, 216, 50>>, <<117, 92, 223, 69>>, <<207, 13, 214, 220>>, <<89, 61, 209, 171>>,
    <<172, 48, 217, 38>>, <<58, 0, 222, 81>>, <<128, 81, 215, 200>>, <<22, 97, 208, 191>>,
    <<181, 244, 180, 33>>, <<35, 196, 179, 86>>, <<153, 149, 186, 207>>, <<15, 165, 189, 184>>,
    <<158, 184, 2, 40>>, <<8, 136, 5, 95>>, <<178, 217, 12, 198>>, <<36, 233, 11, 177>>,
    <<135, 124, 111, 47>>, <<17, 76, 104, 88>>, <<171, 29, 97, 193>>, <<61, 45, 102, 182>>,
    <<144, 65, 220, 118>>, <<6, 113, 219, 1>>, <<188, 32, 210, 152>>, <<42, 16, 213, 239>>,
    <<137, 133, 177, 113>>, <<31, 181, 182, 6>>, <<165, 228, 191, 159>>, <<51, 212, 184, 232>>,
    <<162, 201, 7, 120>>, <<52, 249, 0, 15>>, <<142, 168, 9, 150>>, <<24, 152, 14, 225>>,
    <<187, 13, 106, 127>>, <<45, 61, 109, 8>>, <<151, 108, 100, 145>>, <<1, 92, 99, 230>>,
    <<244, 81, 107, 107>>, <<98, 97, 108, 28>>, <<216, 48, 101, 133>>, <<78, 0, 98, 242>>,
    <<237, 149, 6, 108>>, <<123, 165, 1, 27>>, <<193, 244, 8, 130>>, <<87, 196, 15, 245>>,
    <<198, 217, 176, 101>>, <<80, 233, 183, 18>>, <<234, 184, 190, 139>>, <<124, 136, 185, 252>>,
    <<223, 29, 221, 98>>, <<73, 45, 218, 21>>, <<243, 124, 211, 140>>, <<101, 76, 212, 251>>,
    <<88, 97, 178, 77>>, <<206, 81, 181, 58>>, <<116, 0, 188, 163>>, <<226, 48, 187, 212>>,
    <<65, 165, 223, 74>>, <<215, 149, 216, 61>>, <<109, 196, 209, 164>>, <<251, 244, 214, 211>>,
    <<106, 233, 105, 67>>, <<252, 217, 110, 52>>, <<70, 136, 103, 173>>, <<208, 184, 96, 218>>,
    <<115, 45, 4, 68>>, <<229, 29, 3, 51>>, <<95, 76, 10, 170>>, <<201, 124, 13, 221>>,
    <<60, 113, 5, 80>>, <<170, 65, 2, 39>>, <<16, 16, 11, 190>>, <<134, 32, 12, 201>>,
    <<37, 181, 104, 87>>, <<179, 133, 111, 32>>, <<9, 212, 102, 185>>, <<159, 228, 97, 206>>,
    <<14, 249, 222, 94>>, <<152, 201, 217, 41>>, <<34, 152, 208, 176>>, <<180, 168, 215, 199>>,
    <<23, 61, 179, 89>>, <<129, 13, 180, 46>>, <<59, 92, 189, 183>>, <<173, 108, 186, 192>>,
    <<32, 131, 184, 237>>, <<182, 179, 191, 154>>, <<12, 226, 182, 3>>, <<154, 210, 177, 116>>,
    <<57, 71, 213, 234>>, <<175, 119, 210, 157>>, <<21, 38, 219, 4>>, <<131, 22, 220, 115>>,
    <<18, 11, 99, 227>>, <<132, 59, 100, 148>>, <<62, 106, 109, 13>>, <<168, 90, 106, 122>>,
    <<11, 207, 14, 228>>, <<157, 255, 9, 147>>, <<39, 174, 0, 10>>, <<177, 158, 7, 125>>,
    <<68, 147, 15, 240>>, <<210, 163, 8, 135>>, <<104, 242, 1, 30>>, <<254, 194, 6, 105>>,
    <<93, 87, 98, 247>>, <<203, 103, 101, 128>>, <<113, 54, 108, 25>>, <<231, 6, 107, 110>>,
    <<118, 27, 212, 254>>, <<224, 43, 211, 137>>, <<90, 122, 218, 16>>, <<204, 74, 221, 103>>,
    <<111, 223, 185, 249>>, <<249, 239, 190, 142>>, <<67, 190, 183, 23>>, <<213, 142, 176, 96>>,
    <<232, 163, 214, 214>>, <<126, 147, 209, 161>>, <<196, 194, 216, 56>>, <<82, 242, 223, 79>>,
    <<241, 103, 187, 209>>, <<103, 87, 188, 166>>, <<221, 6, 181, 63>>, <<75, 54, 178, 72>>,
    <<218, 43, 13, 216>>, <<76, 27, 10, 175>>, <<246, 74, 3, 54>>, <<96, 122, 4, 65>>,
    <<195, 239, 96, 223>>, <<85, 223, 103, 168>>, <<239, 142, 110, 49>>, <<121, 190, 105, 70>>,
    <<140, 179, 97, 203>>, <<26, 131, 102, 188>>, <<160, 210, 111, 37>>, <<54, 226, 104, 82>>,
    <<149, 119, 12, 204>>, <<3, 71, 11, 187>>, <<185, 22, 2, 34>>, <<47, 38, 5, 85>>,
    <<190, 59, 186, 197>>, <<40, 11, 189, 178>>, <<146, 90, 180, 43>>, <<4, 106, 179, 92>>,
    <<167, 255, 215, 194>>, <<49, 207, 208, 181>>, <<139, 158, 217, 44>>, <<29, 174, 222, 91>>,
    <<176, 194, 100, 155>>, <<38, 242, 99, 236>>, <<156, 163, 106, 117>>, <<10, 147, 109, 2>>,
    <<169, 6, 9, 156>>, <<63, 54, 14, 235>>, <<133, 103, 7, 114>>, <<19, 87, 0, 5>>,
    <<130, 74, 191, 149>>, <<20, 122, 184, 226>>, <<174, 43, 177, 123>>, <<56, 27, 182, 12>>,
    <<155, 142, 210, 146>>, <<13, 190, 213, 229>>, <<183, 239, 220, 124>>, <<33, 223, 219, 11>>,
    <<212, 210, 211, 134>>, <<66, 226, 212, 241>>, <<248, 179, 221, 104>>, <<110, 131, 218, 31>>,
    <<205, 22, 190, 129>>, <<91, 38, 185, 246>>, <<225, 119, 176, 111>>, <<119, 71, 183, 24>>,
    <<230, 90, 8, 136>>, <<112, 106, 15, 255>>, <<202, 59, 6, 102>>, <<92, 11, 1, 17>>,
    <<255, 158, 101, 143>>, <<105, 174, 98, 248>>, <<211, 255, 107, 97>>, <<69, 207, 108, 22>>,
    <<120, 226, 10, 160>>, <<238, 210, 13, 215>>, <<84, 131, 4, 78>>, <<194, 179, 3, 57>>,
    <<97, 38, 103, 167>>, <<247, 22, 96, 208>>, <<77, 71, 105, 73>>, <<219, 119, 110, 62>>,
    <<74, 106, 209, 174>>, <<220, 90, 214, 217>>, <<102, 11, 223, 64>>, <<240, 59, 216, 55>>,
    <<83, 174, 188, 169>>, <<197, 158, 187, 222>>, <<127, 207, 178, 71>>, <<233, 255, 181, 48>>,
    <<28, 242, 189, 189>>, <<138, 194, 186, 202>>, <<48, 147, 179, 83>>, <<166, 163, 180, 36>>,
    <<5, 54, 208, 186>>, <<147, 6, 215, 205>>, <<41, 87, 222, 84>>, <<191, 103, 217, 35>>,
    <<46, 122, 102, 179>>, <<184, 74, 97, 196>>, <<2, 27, 104, 93>>, <<148, 43, 111, 42>>,
    <<55, 190, 11, 180>>, <<161, 142, 12, 195>>, <<27, 223, 5, 90>>, <<141, 239, 2, 45>> >>
CrcUpdate(crc, byte) ==
    LET t == CrcTable[Xor8(crc[1], byte) + 1]
    IN  << Xor8(t[1], crc[2]), Xor8(t[2], crc[3]), Xor8(t[3], crc[4]), t[4] >>
RECURSIVE CrcFold(_, _, _, _)
CrcFold(crc, b, i, hi) ==
    IF i >= hi THEN crc
    ELSE LET c == CrcUpdate(crc, At(b, i))
         IN  IF c[1] >= 0 THEN CrcFold(c, b, i + 1, hi) ELSE c
\* Hasher::new(); update(&b[lo..hi]); finalize()  -- the u32 as four LE digits
Crc32(b, lo, hi) == XorW(CrcFold(CrcOnes, b, lo, hi), CrcOnes)

\* ------------------------------------------------------------- PageId
\* PageId(u64): the file id in the high 32 bits, the page number in the low
PageId_new(file_id, page_no) == [hi |-> file_id, lo |-> page_no]
file_id(pid) == pid.hi
page_no(pid) == pid.lo

\* --------------------------------------------------------- PageHeader
PageHeader_new(pid, flags) ==
    [ checksum |-> << 0, 0, 0, 0 >>, page_id |-> pid, page_lsn |-> [hi |-> 0, lo |-> 0],
      page_flags |-> flags, lower |-> PageHeader_LEN, upper |-> PAGE_SIZE % U16,
      reserved |-> << 0, 0, 0, 0, 0, 0 >> ]

\* --------------------------------------------------------------- Page
header(b) ==
    [ checksum |-> Slice(b, 0, 4),
      page_id |-> u64_from_le_bytes(Slice(b, 4, 12)),
      page_lsn |-> u64_from_le_bytes(Slice(b, 12, 20)),
      page_flags |-> u16_from_le_bytes(Slice(b, 20, 22)),
      lower |-> u16_from_le_bytes(Slice(b, 22, 24)),
      upper |-> u16_from_le_bytes(Slice(b, 24, 26)),
      reserved |-> Slice(b, 26, 32) ]

\* the 32 header bytes written field by field at offsets 0, 4, 12, 20, 22, 24, 26
write_header(b, hdr) ==
    CopyFromSlice(b, 0,
        hdr.checksum \o u64_to_le_bytes(hdr.page_id) \o u64_to_le_bytes(hdr.page_lsn)
        \o u16_to_le_bytes(hdr.page_flags) \o u16_to_le_bytes(hdr.lower)
        \o u16_to_le_bytes(hdr.upper) \o hdr.reserved)

set_lsn(b, lsn) == CopyFromSlice(b, 12, u64_to_le_bytes(lsn))
set_lower(b, lower) == CopyFromSlice(b, 22, u16_to_le_bytes(lower))
set_upper(b, upper) == CopyFromSlice(b, 24, u16_to_le_bytes(upper))

free_space(b) == Sub16(header(b).upper, header(b).lower)

page_id(b) == u64_from_le_bytes(Slice(b, 4, 12))

verify_checksum(b) == Crc32(b, 4, PAGE_SIZE) = Slice(b, 0, 4)

recompute_checksum(b) ==
    LET z == Fill(b, 0, 4, 0)
    IN  CopyFromSlice(z, 0, Crc32(z, 4, PAGE_SIZE))

read_u16(b, offset) == u16_from_le_bytes(Slice(b, offset, offset + 2))
write_u16(b, offset, value) == CopyFromSlice(b, offset, u16_to_le_bytes(value))

Page_new(pid, flags) ==
    recompute_checksum(write_header(Zeros(PAGE_SIZE), PageHeader_new(pid, flags)))

\* ----------------------------------------------------------- HeapPage
\* Option<&[u8]>
None == [some |-> FALSE, bytes |-> << >>]
Some(bytes) == [some |-> TRUE, bytes |-> bytes]

new_empty(pid) == recompute_checksum(Page_new(pid, Heap))

slot_count(b) == Sub16(PAGE_SIZE % U16, header(b).upper) \div Slot_SIZE

read_slot(b, slot_no) ==
    LET hdr == header(b)
        base0 == Sub16(PAGE_SIZE % U16, Mul16(Add16(slot_no % U16, 1), Slot_SIZE))
        base == Max(base0, hdr.upper)
    IN  [off |-> read_u16(b, base), len |-> read_u16(b, base + 2)]

write_slot(b, slot_no, slot) ==
    LET base == PAGE_SIZE - ((slot_no + 1) * Slot_SIZE)
    IN  write_u16(write_u16(b, base, slot.off), base + 2, slot.len)


\* insert_tuple forgetting the slot entry in its space check
insert_tuple_no_slot_space(b, tuple) ==
    LET need == Len(tuple)
    IN  IF need > free_space(b)
        THEN [ok |-> FALSE, ret |-> 0, buf |-> b]
        ELSE LET hdr == header(b)
                 slot_no == slot_count(b)
                 off == hdr.lower
                 len == Len(tuple) % U16
                 b1 == CopyFromSlice(b, off, tuple)
                 hdr1 == [hdr EXCEPT !.lower = (off + Len(tuple)) % U16,
                                     !.upper = Sub16(hdr.upper, Slot_SIZE)]
                 b2 == write_header(b1, hdr1)
                 b3 == write_slot(b2, slot_no, [off |-> off % U16, len |-> len])
             IN  [ok |-> TRUE, ret |-> slot_no, buf |-> recompute_checksum(b3)]

\* insert_tuple refusing a tuple that fits exactly
insert_tuple_strict(b, tuple) ==
    LET need == Len(tuple) + Slot_SIZE
    IN  IF need >= free_space(b)
        THEN [ok |-> FALSE, ret |-> 0, buf |-> b]
        ELSE LET hdr == header(b)
                 slot_no == slot_count(b)
                 off == hdr.lower
                 len == Len(tuple) % U16
                 b1 == CopyFromSlice(b, off, tuple)
                 hdr1 == [hdr EXCEPT !.lower = (off + Len(tuple)) % U16,
                                     !.upper = Sub16(hdr.upper, Slot_SIZE)]
                 b2 == write_header(b1, hdr1)
                 b3 == write_slot(b2, slot_no, [off |-> off % U16, len |-> len])
             IN  [ok |-> TRUE, ret |-> slot_no, buf |-> recompute_checksum(b3)]

\* insert_tuple recomputing the checksum before it writes the slot
insert_tuple_early_checksum(b, tuple) ==
    LET need == Len(tuple) + Slot_SIZE
    IN  IF need > free_space(b)
        THEN [ok |-> FALSE, ret |-> 0, buf |-> b]
        ELSE LET hdr == header(b)
                 slot_no == slot_count(b)
                 off == hdr.lower
                 len == Len(tuple) % U16
                 b1 == CopyFromSlice(b, off, tuple)
                 hdr1 == [hdr EXCEPT !.lower = (off + Len(tuple)) % U16,
                                     !.upper = Sub16(hdr.upper, Slot_SIZE)]
                 b2 == recompute_checksum(write_header(b1, hdr1))
                 b3 == write_slot(b2, slot_no, [off |-> off % U16, len |-> len])
             IN  [ok |-> TRUE, ret |-> slot_no, buf |-> b3]

insert_tuple(b, tuple) ==
    LET need == Len(tuple) + Slot_SIZE
    IN  IF need > free_space(b)
        THEN [ok |-> FALSE, ret |-> 0, buf |-> b]
        ELSE LET hdr == header(b)
                 slot_no == slot_count(b)
                 off == hdr.lower
                 len == Len(tuple) % U16
                 b1 == CopyFromSlice(b, off, tuple)
                 hdr1 == [hdr EXCEPT !.lower = (off + Len(tuple)) % U16,
                                     !.upper = Sub16(hdr.upper, Slot_SIZE)]
                 b2 == write_header(b1, hdr1)
                 b3 == write_slot(b2, slot_no, [off |-> off % U16, len |-> len])
             IN  [ok |-> TRUE, ret |-> slot_no, buf |-> recompute_checksum(b3)]

read_tuple(b, slot_no) ==
    IF slot_no >= slot_count(b) THEN None
    ELSE LET slot == read_slot(b, slot_no)
         IN  IF slot.len = 0 THEN None
             ELSE Some(Slice(b, slot.off, slot.off + slot.len))


\* delete_tuple marking slot 0 whatever slot it was given
delete_tuple_wrong_slot(b, slot_no) ==
    IF slot_no >= slot_count(b) THEN [ok |-> FALSE, buf |-> b]
    ELSE LET slot == read_slot(b, slot_no)
         IN  IF slot.len = 0 THEN [ok |-> TRUE, buf |-> b]
             ELSE [ok |-> TRUE,
                   buf |-> recompute_checksum(
                             write_slot(b, 0, [off |-> slot.off, len |-> 0]))]

\* delete_tuple giving the slot entry of the last slot back to the free space
delete_tuple_shrink(b, slot_no) ==
    IF slot_no >= slot_count(b) THEN [ok |-> FALSE, buf |-> b]
    ELSE LET slot == read_slot(b, slot_no)
             b1 == write_slot(b, slot_no, [off |-> slot.off, len |-> 0])
             b2 == IF slot_no + 1 = slot_count(b)
                   THEN set_upper(b1, Add16(header(b).upper, Slot_SIZE))
                   ELSE b1
         IN  IF slot.len = 0 THEN [ok |-> TRUE, buf |-> b]
             ELSE [ok |-> TRUE, buf |-> recompute_checksum(b2)]

\* delete_tuple without the early return for a dead slot, writing Slot::tombstone(0)
delete_tuple_rewrite(b, slot_no) ==
    IF slot_no >= slot_count(b) THEN [ok |-> FALSE, buf |-> b]
    ELSE [ok |-> TRUE,
          buf |-> recompute_checksum(write_slot(b, slot_no, [off |-> 0, len |-> 0]))]

delete_tuple(b, slot_no) ==
    IF slot_no >= slot_count(b) THEN [ok |-> FALSE, buf |-> b]
    ELSE LET slot == read_slot(b, slot_no)
         IN  IF slot.len = 0 THEN [ok |-> TRUE, buf |-> b]
             ELSE [ok |-> TRUE,
                   buf |-> recompute_checksum(
                             write_slot(b, slot_no, [off |-> slot.off, len |-> 0]))]

\* the body of compact's loop over the live slots, from the k-th on;
\* st = [buf, scratch, lower]

\* compact's loop forgetting to write the moved slot back
RECURSIVE compact_loop_no_write_slot(_, _, _)
compact_loop_no_write_slot(st, live, k) ==
    IF k > Len(live) THEN st
    ELSE LET s == live[k].s
             data == Slice(st.buf, s.off, Add16(s.off, s.len))
             off == st.lower
         IN  compact_loop_no_write_slot(
                 [ scratch |-> CopyFromSlice(st.scratch, off - PageHeader_LEN, data),
                   lower |-> Add16(st.lower, s.len),
                   buf |-> st.buf ],
                 live, k + 1)

RECURSIVE compact_loop(_, _, _)
compact_loop(st, live, k) ==
    IF k > Len(live) THEN st
    ELSE LET i == live[k].i
             s == live[k].s
             data == Slice(st.buf, s.off, Add16(s.off, s.len))
             off == st.lower
             s1 == [s EXCEPT !.off = st.lower]
         IN  compact_loop(
                 [ scratch |-> CopyFromSlice(st.scratch, off - PageHeader_LEN, data),
                   lower |-> Add16(st.lower, s.len),
                   buf |-> write_slot(st.buf, i, s1) ],
                 live, k + 1)


\* compact forgetting to store the new lower in the header
compact_keep_lower(b) ==
    LET slots == slot_count(b)
        live == SelectSeq([k \in 1..slots |-> [i |-> k - 1, s |-> read_slot(b, k - 1)]],
                          LAMBDA e : e.s.len # 0)
        st == compact_loop([ buf |-> b, scratch |-> Zeros(PAGE_SIZE - PageHeader_LEN),
                             lower |-> PageHeader_LEN ], live, 1)
        b1 == CopyFromSlice(st.buf, PageHeader_LEN,
                            Slice(st.scratch, 0, st.lower - PageHeader_LEN))
    IN  recompute_checksum(b1)

\* compact packing the live tuples from the last slot to the first
compact_descending(b) ==
    LET hdr == header(b)
        slots == slot_count(b)
        live == SelectSeq([k \in 1..slots |-> [i |-> slots - k, s |-> read_slot(b, slots - k)]],
                          LAMBDA e : e.s.len # 0)
        st == compact_loop([ buf |-> b, scratch |-> Zeros(PAGE_SIZE - PageHeader_LEN),
                             lower |-> PageHeader_LEN ], live, 1)
        b1 == CopyFromSlice(st.buf, PageHeader_LEN,
                            Slice(st.scratch, 0, st.lower - PageHeader_LEN))
        b2 == write_header(b1, [hdr EXCEPT !.lower = st.lower])
    IN  recompute_checksum(b2)

compact(b) ==
    LET hdr == header(b)
        slots == slot_count(b)
        live == SelectSeq([k \in 1..slots |-> [i |-> k - 1, s |-> read_slot(b, k - 1)]],
                          LAMBDA e : e.s.len # 0)
        st == compact_loop([ buf |-> b, scratch |-> Zeros(PAGE_SIZE - PageHeader_LEN),
                             lower |-> PageHeader_LEN ], live, 1)
        b1 == CopyFromSlice(st.buf, PageHeader_LEN,
                            Slice(st.scratch, 0, st.lower - PageHeader_LEN))
        b2 == write_header(b1, [hdr EXCEPT !.lower = st.lower])
    IN  recompute_checksum(b2)

\* ------------------------------------------------------- FsDiskManager
\* The data directory: for each file id the file base_<file_id>.db, which is
\* missing or holds a sequence of bytes (offset k is At(data, k)).
NoFile == [exists |-> FALSE, data |-> << >>]

\* OpenOptions::new().create(true).read(true).write(true).open(path)
open_rw(d, f) ==
    IF d[f].exists THEN d ELSE [d EXCEPT ![f] = [exists |-> TRUE, data |-> << >>]]

\* seek(SeekFrom::Start(off)); write_all(bytes): a gap past the end reads as zeros
WriteAt(data, off, bytes) ==
    LET gap == IF off > Len(data) THEN Zeros(off - Len(data)) ELSE << >>
        end == off + Len(bytes)
        head == IF off > Len(data) THEN data ELSE SubSeq(data, 1, off)
        tail == IF end < Len(data) THEN SubSeq(data, end + 1, Len(data)) ELSE << >>
    IN  head \o gap \o bytes \o tail

\* allocate_page that measures the file after appending to it
allocate_page_after_append(d, f) ==
    LET d1 == open_rw(d, f)
        d2 == [d1 EXCEPT ![f].data = WriteAt(@, Len(@), Zeros(PAGE_SIZE))]
        pno == Len(d2[f].data) \div PAGE_SIZE
    IN  [ok |-> TRUE, pid |-> PageId_new(f, pno), disk |-> d2]

\* allocate_page appending a formatted heap page instead of zero bytes
allocate_page_formatted(d, f) ==
    LET d1 == open_rw(d, f)
        len == Len(d1[f].data)
        pno == len \div PAGE_SIZE
    IN  [ ok |-> TRUE, pid |-> PageId_new(f, pno),
          disk |-> [d1 EXCEPT ![f].data =
                        WriteAt(@, len, Page_new(PageId_new(f, pno), Heap))] ]

allocate_page(d, f) ==
    LET d1 == open_rw(d, f)
        len == Len(d1[f].data)
        pno == len \div PAGE_SIZE
    IN  [ ok |-> TRUE, pid |-> PageId_new(f, pno),
          disk |-> [d1 EXCEPT ![f].data = WriteAt(@, len, Zeros(PAGE_SIZE))] ]

\* the two steps of allocate_page that other allocators can interleave with:
\* open_rw and file.metadata()?.len() ...
alloc_measure(d, f) ==
    LET d1 == open_rw(d, f)
    IN  [disk |-> d1, len |-> Len(d1[f].data)]

\* the append written at the offset that was measured
alloc_append_at_measured(d, f, len) ==
    [ ok |-> TRUE, pid |-> PageId_new(f, len \div PAGE_SIZE),
      disk |-> [d EXCEPT ![f].data = WriteAt(@, len, Zeros(PAGE_SIZE))] ]

\* ... and seek(SeekFrom::End(0)); write_all(zeros); Ok(PageId::new(file_id, page_no))
alloc_append(d, f, len) ==
    [ ok |-> TRUE, pid |-> PageId_new(f, len \div PAGE_SIZE),
      disk |-> [d EXCEPT ![f].data = WriteAt(@, Len(@), Zeros(PAGE_SIZE))] ]

\* read_page that hands the bytes back without verifying them
read_page_unverified(d, pid) ==
    LET d1 == open_rw(d, file_id(pid))
        data == d1[file_id(pid)].data
        off == page_no(pid) * PAGE_SIZE
    IN  IF off + PAGE_SIZE > Len(data)
        THEN [ok |-> FALSE, err |-> "Io", page |-> << >>, disk |-> d1]
        ELSE [ok |-> TRUE, err |-> "", page |-> Slice(data, off, off + PAGE_SIZE), disk |-> d1]

read_page(d, pid) ==
    LET d1 == open_rw(d, file_id(pid))
        data == d1[file_id(pid)].data
        off == page_no(pid) * PAGE_SIZE
    IN  IF off + PAGE_SIZE > Len(data)
        THEN [ok |-> FALSE, err |-> "Io", page |-> << >>, disk |-> d1]
        ELSE LET p == Slice(data, off, off + PAGE_SIZE)
             IN  IF ~verify_checksum(p)
                 THEN [ok |-> FALSE, err |-> "Checksum", page |-> << >>, disk |-> d1]
                 ELSE [ok |-> TRUE, err |-> "", page |-> p, disk |-> d1]

\* write_page writing at the end of the file, as allocate_page does
write_page_at_end(d, page) ==
    LET pid == page_id(page)
        d1 == open_rw(d, file_id(pid))
        off == Len(d1[file_id(pid)].data)
    IN  [ ok |-> TRUE,
          disk |-> [d1 EXCEPT ![file_id(pid)].data =
                        WriteAt(@, off, Slice(page, 0, PAGE_SIZE))] ]

\* write_page opening the file with truncate(true)
write_page_truncating(d, page) ==
    LET pid == page_id(page)
        d1 == open_rw(d, file_id(pid))
        off == page_no(pid) * PAGE_SIZE
    IN  [ ok |-> TRUE,
          disk |-> [d1 EXCEPT ![file_id(pid)].data =
                        WriteAt(<< >>, off, Slice(page, 0, PAGE_SIZE))] ]

write_page(d, page) ==
    LET pid == page_id(page)
        d1 == open_rw(d, file_id(pid))
        off == page_no(pid) * PAGE_SIZE
    IN  [ ok |-> TRUE,
          disk |-> [d1 EXCEPT ![file_id(pid)].data =
                        WriteAt(@, off, Slice(page, 0, PAGE_SIZE))] ]

\* ---------------------------------------------------------- query types
\* DataType: Integer | Varchar(n) | Boolean
DataType_Integer == [t |-> "Integer", n |-> 0]
DataType_Varchar(n) == [t |-> "Varchar", n |-> n]
DataType_Boolean == [t |-> "Boolean", n |-> 0]

\* Value: Integer(i32) | Varchar(String) | Boolean(bool) | Null; a String is
\* the sequence of its UTF-8 bytes
Value_Integer(i) == [t |-> "Integer", i |-> i, s |-> << >>]
Value_Varchar(str) == [t |-> "Varchar", i |-> 0, s |-> str]
Value_Boolean(b) == [t |-> "Boolean", i |-> IF b THEN 1 ELSE 0, s |-> << >>]
Value_Null == [t |-> "Null", i |-> 0, s |-> << >>]

Column(name, data_type, nullable) ==
    [name |-> name, data_type |-> data_type, nullable |-> nullable]
Schema_new(columns) == [columns |-> columns]

I32_MAX == 2147483647
I32_MIN == -I32_MAX - 1

\* i32::to_le_bytes / i32::from_le_bytes (two's complement)
i32_to_le_bytes(i) ==
    << i % 256, (i \div 256) % 256, (i \div 65536) % 256, (i \div 16777216) % 256 >>
i32_from_le_bytes(b) ==
    b[1] + 256 * b[2] + 65536 * b[3]
        + 16777216 * (IF b[4] >= 128 THEN b[4] - 256 ELSE b[4])

\* Value::to_bytes
to_bytes(value) ==
    CASE value.t = "Integer" -> i32_to_le_bytes(value.i)
      [] value.t = "Varchar" -> u32_to_le_bytes(Len(value.s)) \o value.s
      [] value.t = "Boolean" -> << value.i >>
      [] OTHER -> << >>

\* String::from_utf8 succeeds: the bytes from position i on (1-based) are
\* well-formed UTF-8
RECURSIVE Utf8Valid(_, _)
Utf8Valid(b, i) ==
    LET n == Len(b)
        Cont(k) == k <= n /\ b[k] >= 128 /\ b[k] <= 191
        In(k, lo, hi) == k <= n /\ b[k] >= lo /\ b[k] <= hi
    IN  IF i > n THEN TRUE
        ELSE IF b[i] <= 127 THEN Utf8Valid(b, i + 1)
        ELSE IF b[i] >= 194 /\ b[i] <= 223
            THEN Cont(i + 1) /\ Utf8Valid(b, i + 2)
        ELSE IF b[i] = 224
            THEN In(i + 1, 160, 191) /\ Cont(i + 2) /\ Utf8Valid(b, i + 3)
        ELSE IF (b[i] >= 225 /\ b[i] <= 236) \/ b[i] = 238 \/ b[i] = 239
            THEN Cont(i + 1) /\ Cont(i + 2) /\ Utf8Valid(b, i + 3)
        ELSE IF b[i] = 237
            THEN In(i + 1, 128, 159) /\ Cont(i + 2) /\ Utf8Valid(b, i + 3)
        ELSE IF b[i] = 240
            THEN In(i + 1, 144, 191) /\ Cont(i + 2) /\ Cont(i + 3) /\ Utf8Valid(b, i + 4)
        ELSE IF b[i] >= 241 /\ b[i] <= 243
            THEN Cont(i + 1) /\ Cont(i + 2) /\ Cont(i + 3) /\ Utf8Valid(b, i + 4)
        ELSE IF b[i] = 244
            THEN In(i + 1, 128, 143) /\ Cont(i + 2) /\ Cont(i + 3) /\ Utf8Valid(b, i + 4)
        ELSE FALSE

\* anyhow::Result: Ok(value) or Err(message)
Ok(v) == [ok |-> TRUE, err |-> "", v |-> v]
Err(msg) == [ok |-> FALSE, err |-> msg, v |-> << >>]

\* deserialize_row: the columns from the k-th on, read at offset, appended to row
RECURSIVE deserialize_columns(_, _, _, _, _)
deserialize_columns(data, columns, k, offset, row) ==
    IF k > Len(columns) THEN Ok(row)
    ELSE
    LET t == columns[k].data_type.t IN
    CASE t = "Integer" ->
            IF offset + 4 > Len(data)
            THEN Err("Not enough data for integer column")
            ELSE deserialize_columns(data, columns, k + 1, offset + 4,
                    Append(row, Value_Integer(i32_from_le_bytes(Slice(data, offset, offset + 4)))))
      [] t = "Varchar" ->
            IF offset + 4 > Len(data)
            THEN Err("Not enough data for varchar length")
            ELSE
            LET lenb == Slice(data, offset, offset + 4)
                \* a length of 2^24 or more exceeds every buffer of the model
                len == IF lenb[4] # 0 THEN Len(data) + 1
                       ELSE lenb[1] + 256 * lenb[2] + 65536 * lenb[3]
                off1 == offset + 4
            IN  IF off1 + len > Len(data)
                THEN Err("Not enough data for varchar content")
                ELSE LET string_bytes == Slice(data, off1, off1 + len)
                     IN  IF ~Utf8Valid(string_bytes, 1)
                         THEN Err("invalid utf-8 sequence")
                         ELSE deserialize_columns(data, columns, k + 1, off1 + len,
                                  Append(row, Value_Varchar(string_bytes)))
      [] t = "Boolean" ->
            IF offset + 1 > Len(data)
            THEN Err("Not enough data for boolean column")
            ELSE deserialize_columns(data, columns, k + 1, offset + 1,
                    Append(row, Value_Boolean(At(data, offset) # 0)))

deserialize_row(data, schema) ==
    deserialize_columns(data, schema.columns, 1, 0, << >>)

\* ------------------------------------------------------------------ AST
\* BinaryOperator: "Eq" "Ne" "Lt" "Le" "Gt" "Ge" "Add" "Sub" "Mul" "Div" "And" "Or"
Expr_Column(name) == [e |-> "Column", name |-> name]
Expr_Literal(value) == [e |-> "Literal", value |-> value]
Expr_BinaryOp(left, op, right) == [e |-> "BinaryOp", left |-> left, op |-> op, right |-> right]

Wildcard == [item |-> "Wildcard"]
SelectItem_Expression(expr) == [item |-> "Expression", expr |-> expr]

\* ------------------------------------------------------------- executor
VARIABLE overflow_checks   \* whether the build checks integer overflow (panics) or wraps

\* a panic: the call does not return to its caller
Panic(msg) == [ok |-> FALSE, err |-> msg, v |-> << >>, panic |-> TRUE]
IsPanic(r) == "panic" \in DOMAIN r

\* String comparison: lexicographic on the bytes
RECURSIVE StrLt(_, _)
StrLt(a, b) ==
    IF b = << >> THEN FALSE
    ELSE IF a = << >> THEN TRUE
    ELSE IF a[1] # b[1] THEN a[1] < b[1]
    ELSE StrLt(Tail(a), Tail(b))

\* l + r, l - r on i32: the exact result, a panic, or the wrapped result
i32_add(l, r) ==
    IF r > 0 /\ l > I32_MAX - r
    THEN IF overflow_checks THEN Panic("attempt to add with overflow")
         ELSE Ok(Value_Integer((l + I32_MIN) + (r + I32_MIN)))
    ELSE IF r < 0 /\ l < I32_MIN - r
    THEN IF overflow_checks THEN Panic("attempt to add with overflow")
         ELSE Ok(Value_Integer((l - I32_MIN) + (r - I32_MIN)))
    ELSE Ok(Value_Integer(l + r))

i32_sub(l, r) ==
    IF r < 0 /\ l > I32_MAX + r
    THEN IF overflow_checks THEN Panic("attempt to subtract with overflow")
         ELSE Ok(Value_Integer((l + I32_MIN) - (r - I32_MIN)))
    ELSE IF r > 0 /\ l < I32_MIN + r
    THEN IF overflow_checks THEN Panic("attempt to subtract with overflow")
         ELSE Ok(Value_Integer((l - I32_MIN) - (r + I32_MIN)))
    ELSE Ok(Value_Integer(l - r))

\* the 8 low bytes of the product of two numbers given as 8 bytes each
RECURSIVE MulBytes(_, _, _, _, _)
MulBytes(a, b, k, carry, out) ==
    IF k > 8 THEN out
    ELSE LET RECURSIVE Sum(_)
             Sum(i) == IF i = 0 THEN carry ELSE a[i] * b[k + 1 - i] + Sum(i - 1)
             t == Sum(k)
         IN  MulBytes(a, b, k + 1, t \div 256, Append(out, t % 256))

\* an i32 sign-extended to 8 bytes
SignExtend(i) == i32_to_le_bytes(i) \o Repeat(4, IF i < 0 THEN 255 ELSE 0)

i32_mul(l, r) ==
    LET prod == MulBytes(SignExtend(l), SignExtend(r), 1, 0, << >>)
        low == i32_from_le_bytes(SubSeq(prod, 1, 4))
        fits == SubSeq(prod, 5, 8) = Repeat(4, IF low < 0 THEN 255 ELSE 0)
    IN  IF fits THEN Ok(Value_Integer(low))
        ELSE IF overflow_checks THEN Panic("attempt to multiply with overflow")
        ELSE Ok(Value_Integer(low))

\* l / r on i32 truncates toward zero; i32::MIN / -1 panics in every build
i32_div(l, r) ==
    IF r = 0 THEN Err("Division by zero")
    ELSE IF l = I32_MIN /\ r = -1 THEN Panic("attempt to divide with overflow")
    ELSE IF r = I32_MIN THEN Ok(Value_Integer(IF l = I32_MIN THEN 1 ELSE 0))
    ELSE LET q == l \div r
             exact == l % (IF r < 0 THEN -r ELSE r) = 0
         IN  Ok(Value_Integer(IF ~exact /\ q < 0 THEN q + 1 ELSE q))

Comparison == {"Eq", "Ne", "Lt", "Le", "Gt", "Ge"}

\* the comparison op on two integers, or on two strings
Compare(op, eq, lt) ==
    CASE op = "Eq" -> eq
      [] op = "Ne" -> ~eq
      [] op = "Lt" -> lt
      [] op = "Le" -> lt \/ eq
      [] op = "Gt" -> ~lt /\ ~eq
      [] op = "Ge" -> ~lt

\* evaluate_binary_op: a binary operation in boolean context
evaluate_binary_op(left, op, right) ==
    CASE left.t = "Integer" /\ right.t = "Integer" ->
            IF op \in Comparison
            THEN Ok(Compare(op, left.i = right.i, left.i < right.i))
            ELSE Err("Operator not supported for integers in boolean context")
      [] left.t = "Varchar" /\ right.t = "Varchar" ->
            IF op \in Comparison
            THEN Ok(Compare(op, left.s = right.s, StrLt(left.s, right.s)))
            ELSE Err("Operator not supported for strings in boolean context")
      [] left.t = "Boolean" /\ right.t = "Boolean" ->
            CASE op = "Eq" -> Ok(left.i = right.i)
              [] op = "Ne" -> Ok(left.i # right.i)
              [] op = "And" -> Ok(left.i = 1 /\ right.i = 1)
              [] op = "Or" -> Ok(left.i = 1 \/ right.i = 1)
              [] OTHER -> Err("Operator not supported for booleans")
      [] OTHER -> Err("Cannot compare")

\* evaluate_binary_op_value: a binary operation producing a Value
evaluate_binary_op_value(left, op, right) ==
    CASE left.t = "Integer" /\ right.t = "Integer" ->
            CASE op = "Add" -> i32_add(left.i, right.i)
              [] op = "Sub" -> i32_sub(left.i, right.i)
              [] op = "Mul" -> i32_mul(left.i, right.i)
              [] op = "Div" -> i32_div(left.i, right.i)
              [] op \in Comparison ->
                    Ok(Value_Boolean(Compare(op, left.i = right.i, left.i < right.i)))
              [] OTHER -> Err("Operator not supported for integers")
      [] left.t = "Varchar" /\ right.t = "Varchar" ->
            CASE op = "Add" -> Ok(Value_Varchar(left.s \o right.s))
              [] op \in Comparison ->
                    Ok(Value_Boolean(Compare(op, left.s = right.s, StrLt(left.s, right.s))))
              [] OTHER -> Err("Operator not supported for strings")
      [] left.t = "Boolean" /\ right.t = "Boolean" ->
            CASE op = "And" -> Ok(Value_Boolean(left.i = 1 /\ right.i = 1))
              [] op = "Or" -> Ok(Value_Boolean(left.i = 1 \/ right.i = 1))
              [] op = "Eq" -> Ok(Value_Boolean(left.i = right.i))
              [] op = "Ne" -> Ok(Value_Boolean(left.i # right.i))
              [] OTHER -> Err("Operator not supported for booleans")
      [] OTHER -> Err("Cannot apply operator")

\* schema.columns.iter().position(|col| col.name == column_name): 0 if none
RECURSIVE Position(_, _, _)
Position(columns, name, k) ==
    IF k > Len(columns) THEN 0
    ELSE IF columns[k].name = name THEN k
    ELSE Position(columns, name, k + 1)

lookup_column_value(column_name, row, schema) ==
    LET column_index == Position(schema.columns, column_name, 1)
    IN  IF column_index = 0 THEN Err("Column not found in schema")
        ELSE IF column_index > Len(row) THEN Err("Row has fewer columns than schema indicates")
        ELSE Ok(row[column_index])

RECURSIVE evaluate_expression_with_schema(_, _, _)
evaluate_expression_with_schema(expr, row, schema) ==
    CASE expr.e = "Literal" -> Ok(expr.value)
      [] expr.e = "Column" -> lookup_column_value(expr.name, row, schema)
      [] expr.e = "BinaryOp" ->
            LET left_val == evaluate_expression_with_schema(expr.left, row, schema)
            IN  IF ~left_val.ok THEN left_val
                ELSE LET right_val == evaluate_expression_with_schema(expr.right, row, schema)
                     IN  IF ~right_val.ok THEN right_val
                         ELSE evaluate_binary_op_value(left_val.v, expr.op, right_val.v)

\* PhysicalPlan
SeqScan(table_name, schema) == [p |-> "SeqScan", table_name |-> table_name, schema |-> schema]
Filter(predicate, input) == [p |-> "Filter", predicate |-> predicate, input |-> input]
Projection(exprs, input) == [p |-> "Projection", exprs |-> exprs, input |-> input]
Limit(limit, input) == [p |-> "Limit", limit |-> limit, input |-> input]

\* the loop over the slots skipping a tuple that does not deserialize
RECURSIVE scan_slots_skipping(_, _, _, _)
scan_slots_skipping(page, schema, slot_no, rows) ==
    IF slot_no >= slot_count(page) THEN Ok(rows)
    ELSE LET tuple_data == read_tuple(page, slot_no)
         IN  IF ~tuple_data.some THEN scan_slots_skipping(page, schema, slot_no + 1, rows)
             ELSE LET row == deserialize_row(tuple_data.bytes, schema)
                  IN  scan_slots_skipping(page, schema, slot_no + 1,
                          IF row.ok THEN Append(rows, row.v) ELSE rows)

\* execute_seq_scan, the loop over the slots of one page
RECURSIVE scan_slots(_, _, _, _)
scan_slots(page, schema, slot_no, rows) ==
    IF slot_no >= slot_count(page) THEN Ok(rows)
    ELSE LET tuple_data == read_tuple(page, slot_no)
         IN  IF ~tuple_data.some THEN scan_slots(page, schema, slot_no + 1, rows)
             ELSE LET row == deserialize_row(tuple_data.bytes, schema)
                  IN  IF ~row.ok THEN row
                      ELSE scan_slots(page, schema, slot_no + 1, Append(rows, row.v))

\* the loop over the pages going on after a page that cannot be read, as long
\* as the file has further pages
RECURSIVE scan_pages_past_failure(_, _, _, _, _)
scan_pages_past_failure(d, schema, fid, pno, rows) ==
    LET r == read_page(d, PageId_new(fid, pno))
    IN  IF r.ok
        THEN LET rr == scan_slots(r.page, schema, 0, rows)
             IN  IF ~rr.ok THEN [ok |-> FALSE, err |-> rr.err, v |-> << >>, disk |-> r.disk]
                 ELSE scan_pages_past_failure(r.disk, schema, fid, pno + 1, rr.v)
        ELSE IF (pno + 1) * PAGE_SIZE < Len(r.disk[fid].data)
             THEN scan_pages_past_failure(r.disk, schema, fid, pno + 1, rows)
             ELSE [ok |-> TRUE, err |-> "", v |-> rows, disk |-> r.disk]

\* execute_seq_scan, the loop over the pages of file_id
RECURSIVE scan_pages(_, _, _, _, _)
scan_pages(d, schema, fid, pno, rows) ==
    LET r == read_page(d, PageId_new(fid, pno))
    IN  IF r.ok
        THEN LET rr == scan_slots(r.page, schema, 0, rows)
             IN  IF ~rr.ok THEN [ok |-> FALSE, err |-> rr.err, v |-> << >>, disk |-> r.disk]
                 ELSE scan_pages(r.disk, schema, fid, pno + 1, rr.v)
        ELSE [ok |-> TRUE, err |-> "", v |-> rows, disk |-> r.disk]

\* execute_seq_scan that reads the file named by the table
execute_seq_scan_by_table(table_name, schema, d) ==
    scan_pages(d, schema, IF table_name = "users" THEN 1 ELSE 2, 0, << >>)

execute_seq_scan(table_name, schema, d) ==
    scan_pages(d, schema, 1, 0, << >>)

evaluate_predicate_with_schema(expr, row, schema) ==
    CASE expr.e = "Literal" ->
            IF expr.value.t = "Boolean" THEN Ok(expr.value.i = 1)
            ELSE Err("Non-boolean literal in predicate")
      [] expr.e = "Column" ->
            LET value == lookup_column_value(expr.name, row, schema)
            IN  IF ~value.ok THEN value
                ELSE IF value.v.t = "Boolean" THEN Ok(value.v.i = 1)
                ELSE Err("Column reference in predicate must evaluate to boolean")
      [] expr.e = "BinaryOp" ->
            LET left_val == evaluate_expression_with_schema(expr.left, row, schema)
            IN  IF ~left_val.ok THEN left_val
                ELSE LET right_val == evaluate_expression_with_schema(expr.right, row, schema)
                     IN  IF ~right_val.ok THEN right_val
                         ELSE evaluate_binary_op(left_val.v, expr.op, right_val.v)

\* the loop of a filter that keeps a row when an earlier row was kept
RECURSIVE filter_rows_sticky(_, _, _, _, _)
filter_rows_sticky(predicate, input_rows, schema, k, result_rows) ==
    IF k > Len(input_rows) THEN Ok(result_rows)
    ELSE LET keep == evaluate_predicate_with_schema(predicate, input_rows[k], schema)
         IN  IF ~keep.ok THEN keep
             ELSE filter_rows_sticky(predicate, input_rows, schema, k + 1,
                      IF keep.v \/ result_rows # << >>
                      THEN Append(result_rows, input_rows[k]) ELSE result_rows)

\* execute_filter_with_schema, the loop from the k-th input row on
RECURSIVE filter_rows(_, _, _, _, _)
filter_rows(predicate, input_rows, schema, k, result_rows) ==
    IF k > Len(input_rows) THEN Ok(result_rows)
    ELSE LET keep == evaluate_predicate_with_schema(predicate, input_rows[k], schema)
         IN  IF ~keep.ok THEN keep
             ELSE filter_rows(predicate, input_rows, schema, k + 1,
                      IF keep.v THEN Append(result_rows, input_rows[k]) ELSE result_rows)

execute_filter_with_schema(predicate, input_rows, schema) ==
    filter_rows(predicate, input_rows, schema, 1, << >>)

\* the values of the expressions from the k-th on for one row
RECURSIVE project_row(_, _, _, _, _)
project_row(exprs, input_row, input_schema, k, output_row) ==
    IF k > Len(exprs) THEN Ok(output_row)
    ELSE LET value == evaluate_expression_with_schema(exprs[k], input_row, input_schema)
         IN  IF ~value.ok THEN value
             ELSE project_row(exprs, input_row, input_schema, k + 1, Append(output_row, value.v))

\* the loop of a projection that returns the rows it has when a row fails
RECURSIVE project_rows_partial(_, _, _, _, _)
project_rows_partial(exprs, input_rows, input_schema, k, result_rows) ==
    IF k > Len(input_rows) THEN Ok(result_rows)
    ELSE LET output_row == project_row(exprs, input_rows[k], input_schema, 1, << >>)
         IN  IF ~output_row.ok THEN Ok(result_rows)
             ELSE project_rows_partial(exprs, input_rows, input_schema, k + 1,
                                       Append(result_rows, output_row.v))

\* execute_projection_with_schema, the loop from the k-th input row on
RECURSIVE project_rows(_, _, _, _, _)
project_rows(exprs, input_rows, input_schema, k, result_rows) ==
    IF k > Len(input_rows) THEN Ok(result_rows)
    ELSE LET output_row == project_row(exprs, input_rows[k], input_schema, 1, << >>)
         IN  IF ~output_row.ok THEN output_row
             ELSE project_rows(exprs, input_rows, input_schema, k + 1,
                               Append(result_rows, output_row.v))

RECURSIVE create_projection_columns(_, _, _, _)
create_projection_columns(exprs, input_schema, k, columns) ==
    IF k > Len(exprs) THEN Ok(Schema_new(columns))
    ELSE
    LET expr == exprs[k] IN
    CASE expr.e = "Column" ->
            LET i == Position(input_schema.columns, expr.name, 1)
            IN  IF i = 0 THEN Err("Column not found in input schema")
                ELSE create_projection_columns(exprs, input_schema, k + 1,
                        Append(columns, Column(expr.name, input_schema.columns[i].data_type, TRUE)))
      [] expr.e = "Literal" ->
            create_projection_columns(exprs, input_schema, k + 1,
                Append(columns, Column("literal",
                    CASE expr.value.t = "Integer" -> DataType_Integer
                      [] expr.value.t = "Boolean" -> DataType_Boolean
                      [] OTHER -> DataType_Varchar(255),
                    TRUE)))
      [] expr.e = "BinaryOp" ->
            create_projection_columns(exprs, input_schema, k + 1,
                Append(columns, Column("expr", DataType_Integer, TRUE)))

create_projection_schema(exprs, input_schema) ==
    create_projection_columns(exprs, input_schema, 1, << >>)

\* Ok((rows, schema)) is carried as v = [rows, schema]
execute_projection_with_schema(exprs, input_rows, input_schema) ==
    LET result_rows == project_rows(exprs, input_rows, input_schema, 1, << >>)
    IN  IF ~result_rows.ok THEN result_rows
        ELSE LET output_schema == create_projection_schema(exprs, input_schema)
             IN  IF ~output_schema.ok THEN output_schema
                 ELSE Ok([rows |-> result_rows.v, schema |-> output_schema.v])

\* input_rows.into_iter().take(limit).collect(), taking one row too few
execute_limit_short(limit, input_rows) ==
    SubSeq(input_rows, 1, IF limit - 1 < Len(input_rows) THEN limit - 1 ELSE Len(input_rows))

execute_limit(limit, input_rows) ==
    SubSeq(input_rows, 1, IF limit < Len(input_rows) THEN limit ELSE Len(input_rows))

\* the result of execute: Ok(QueryResult{rows, schema}), Err(err) or a panic,
\* and the data directory it leaves
Failed(r, d) ==
    [ok |-> FALSE, err |-> r.err, panic |-> IsPanic(r), rows |-> << >>,
     schema |-> Schema_new(<< >>), disk |-> d]
Done(rows, schema, d) ==
    [ok |-> TRUE, err |-> "", panic |-> FALSE, rows |-> rows, schema |-> schema, disk |-> d]

RECURSIVE execute(_, _)
execute(plan, d) ==
    CASE plan.p = "SeqScan" ->
            Let(execute_seq_scan(plan.table_name, plan.schema, d), LAMBDA rows :
                IF ~rows.ok THEN Failed(rows, rows.disk)
                ELSE Done(rows.v, plan.schema, rows.disk))
      [] plan.p = "Filter" ->
            Let(execute(plan.input, d), LAMBDA input_result :
                IF ~input_result.ok THEN input_result
                ELSE Let(execute_filter_with_schema(plan.predicate, input_result.rows,
                                                    input_result.schema), LAMBDA rows :
                         IF ~rows.ok THEN Failed(rows, input_result.disk)
                         ELSE Done(rows.v, input_result.schema, input_result.disk)))
      [] plan.p = "Projection" ->
            Let(execute(plan.input, d), LAMBDA input_result :
                IF ~input_result.ok THEN input_result
                ELSE Let(execute_projection_with_schema(plan.exprs, input_result.rows,
                                                        input_result.schema), LAMBDA out :
                         IF ~out.ok THEN Failed(out, input_result.disk)
                         ELSE Done(out.v.rows, out.v.schema, input_result.disk)))
      [] plan.p = "Limit" ->
            Let(execute(plan.input, d), LAMBDA input_result :
                IF ~input_result.ok THEN input_result
                ELSE Done(execute_limit(plan.limit, input_result.rows),
                          input_result.schema, input_result.disk))

\* --------------------------------------------------------------- inputs
\* the tuple of length n passed to insert_tuple: its bytes name its length and
\* their position, and include 0 and 255
Tuple(n) == [k \in 1..n |-> (85 * n + k - 1) % 256]
TupleArgs == { Tuple(n) : n \in 0..MaxTupleLen }
SlotArgs == 0..MaxSlotArg
PageIds == { PageId_new(1, 0) }

\* the files of the data directory and the pages the disk manager is asked for
FileIds == {1, 2}
DiskPageIds == { PageId_new(1, 0), PageId_new(1, 1), PageId_new(2, 0) }
\* the pages handed to write_page: a fresh index page, a heap page
\* holding a tuple, and a page whose LSN was set without recomputing the checksum
PageArgs ==
    UNION { { Page_new(pid, Index),
              insert_tuple(new_empty(pid), Tuple(MaxTupleLen)).buf,
              set_lsn(new_empty(pid), [hi |-> 0, lo |-> 7]) } : pid \in DiskPageIds }

\* ---------------------------------------------------------------- planner
\* Option<T>
Opt_None == [some |-> FALSE]
Opt_Some(v) == [some |-> TRUE, v |-> v]

\* SelectStatement { select_list, from, where_clause, limit }
SelectStatement(select_list, from, where_clause, limit) ==
    [select_list |-> select_list, from |-> from, where_clause |-> where_clause,
     limit |-> limit]

\* QueryPlanner::get_table_schema: the same schema for every table
get_table_schema(table_name) ==
    Ok(Schema_new(<< Column("id", DataType_Integer, FALSE),
                     Column("name", DataType_Varchar(255), TRUE) >>))

\* select_list.iter().any(|item| matches!(item, SelectItem::Wildcard))
AnyWildcard(select_list) == \E i \in 1..Len(select_list) : select_list[i] = Wildcard

\* the map of the select items to their expressions, collected into a Result
RECURSIVE collect_exprs(_, _, _)
collect_exprs(select_list, k, exprs) ==
    IF k > Len(select_list) THEN Ok(exprs)
    ELSE IF select_list[k] = Wildcard THEN Err("Wildcard not supported in projection")
    ELSE collect_exprs(select_list, k + 1, Append(exprs, select_list[k].expr))

\* a planner that applies the LIMIT to the scan, below the Filter
plan_select_limit_first(select) ==
    IF ~select.from.some THEN Err("SELECT without FROM not yet supported")
    ELSE LET schema == get_table_schema(select.from.v)
             scan == SeqScan(select.from.v, schema.v)
             limited == IF select.limit.some THEN Limit(select.limit.v, scan) ELSE scan
             filtered == IF select.where_clause.some
                         THEN Filter(select.where_clause.v, limited) ELSE limited
             exprs == collect_exprs(select.select_list, 1, << >>)
         IN  IF ~AnyWildcard(select.select_list)
             THEN IF ~exprs.ok THEN exprs
                  ELSE Ok(Projection(exprs.v, filtered))
             ELSE Ok(filtered)

\* QueryPlanner::plan_select
plan_select(select) ==
    IF ~select.from.some THEN Err("SELECT without FROM not yet supported")
    ELSE LET schema == get_table_schema(select.from.v)
             scan == SeqScan(select.from.v, schema.v)
             filtered == IF select.where_clause.some
                         THEN Filter(select.where_clause.v, scan) ELSE scan
             exprs == collect_exprs(select.select_list, 1, << >>)
             limited(input) == IF select.limit.some THEN Limit(select.limit.v, input)
                               ELSE input
         IN  IF ~AnyWildcard(select.select_list)
             THEN IF ~exprs.ok THEN exprs
                  ELSE Ok(limited(Projection(exprs.v, filtered)))
             ELSE Ok(limited(filtered))

\* QueryPlanner::plan
QueryPlanner_plan(stmt) == plan_select(stmt)

\* ----------------------------------------------------------------- parser
\* &str: a sequence of characters, each a string of length one
LowerAlpha ==
    { "a", "b", "c", "d", "e", "f", "g", "h", "i", "j", "k", "l", "m", "n",
      "o", "p", "q", "r", "s", "t", "u", "v", "w", "x", "y", "z" }
UpperAlpha ==
    { "A", "B", "C", "D", "E", "F", "G", "H", "I", "J", "K", "L", "M", "N",
      "O", "P", "Q", "R", "S", "T", "U", "V", "W", "X", "Y", "Z" }
Digits == { "0", "1", "2", "3", "4", "5", "6", "7", "8", "9" }
\* char::to_ascii_lowercase on the upper-case letters
LowerOf ==
    "A" :> "a" @@ "B" :> "b" @@ "C" :> "c" @@ "D" :> "d" @@ "E" :> "e" @@ "F" :> "f" @@
    "G" :> "g" @@ "H" :> "h" @@ "I" :> "i" @@ "J" :> "j" @@ "K" :> "k" @@ "L" :> "l" @@
    "M" :> "m" @@ "N" :> "n" @@ "O" :> "o" @@ "P" :> "p" @@ "Q" :> "q" @@ "R" :> "r" @@
    "S" :> "s" @@ "T" :> "t" @@ "U" :> "u" @@ "V" :> "v" @@ "W" :> "w" @@ "X" :> "x" @@
    "Y" :> "y" @@ "Z" :> "z"
Lower(c) == IF c \in UpperAlpha THEN LowerOf[c] ELSE c
\* the UTF-8 byte of a character
Utf8Of ==
    "a" :> 97 @@ "b" :> 98 @@ "c" :> 99 @@ "d" :> 100 @@ "e" :> 101 @@ "f" :> 102 @@
    "g" :> 103 @@ "h" :> 104 @@ "i" :> 105 @@ "j" :> 106 @@ "k" :> 107 @@ "l" :> 108 @@
    "m" :> 109 @@ "n" :> 110 @@ "o" :> 111 @@ "p" :> 112 @@ "q" :> 113 @@ "r" :> 114 @@
    "s" :> 115 @@ "t" :> 116 @@ "u" :> 117 @@ "v" :> 118 @@ "w" :> 119 @@ "x" :> 120 @@
    "y" :> 121 @@ "z" :> 122 @@ "A" :> 65 @@ "B" :> 66 @@ "C" :> 67 @@ "D" :> 68 @@
    "E" :> 69 @@ "F" :> 70 @@ "G" :> 71 @@ "H" :> 72 @@ "I" :> 73 @@ "J" :> 74 @@
    "K" :> 75 @@ "L" :> 76 @@ "M" :> 77 @@ "N" :> 78 @@ "O" :> 79 @@ "P" :> 80 @@
    "Q" :> 81 @@ "R" :> 82 @@ "S" :> 83 @@ "T" :> 84 @@ "U" :> 85 @@ "V" :> 86 @@
    "W" :> 87 @@ "X" :> 88 @@ "Y" :> 89 @@ "Z" :> 90 @@ "0" :> 48 @@ "1" :> 49 @@
    "2" :> 50 @@ "3" :> 51 @@ "4" :> 52 @@ "5" :> 53 @@ "6" :> 54 @@ "7" :> 55 @@
    "8" :> 56 @@ "9" :> 57 @@ " " :> 32 @@ "'" :> 39 @@ "*" :> 42 @@ "," :> 44 @@
    "(" :> 40 @@ ")" :> 41 @@ "=" :> 61 @@ "<" :> 60 @@ ">" :> 62 @@ "!" :> 33 @@
    "+" :> 43 @@ "-" :> 45 @@ "/" :> 47 @@ "_" :> 95 @@ ";" :> 59 @@ "." :> 46
DigitValue(c) == Utf8Of[c] - 48

\* the classes of characters the parsers take: multispace (space, tab, line
\* feed, carriage return), digit1, alpha1, the rest of an identifier
\* (alphanumeric or '_'), the content of a string literal (not a quote)
InClass(c, class) ==
    CASE class = "multispace" -> c \in {" ", "\t", "\n", "\r"}
      [] class = "digit" -> c \in Digits
      [] class = "alpha" -> c \in LowerAlpha \cup UpperAlpha
      [] class = "alphanumeric_" -> c \in LowerAlpha \cup UpperAlpha \cup Digits \cup {"_"}
      [] class = "not_quote" -> c # "'"

\* the number of leading characters of input in the class
RECURSIVE SpanLen(_, _)
SpanLen(input, class) ==
    IF input = << >> THEN 0
    ELSE IF InClass(input[1], class) THEN 1 + SpanLen(Tail(input), class)
    ELSE 0

Drop(input, n) == SubSeq(input, n + 1, Len(input))
Take(input, n) == SubSeq(input, 1, n)

\* String from the characters
RECURSIVE Str(_)
Str(cs) == IF cs = << >> THEN "" ELSE cs[1] \o Str(Tail(cs))
\* String::as_bytes
StrBytes(cs) == [i \in 1..Len(cs) |-> Utf8Of[cs[i]]]

\* IResult: Ok((rest, v)) or Err(nom::Err::Error) at the input
POk(rest, v) == [ok |-> TRUE, rest |-> rest, v |-> v]
PErr(input) == [ok |-> FALSE, rest |-> input, v |-> << >>]

multispace0(input) == POk(Drop(input, SpanLen(input, "multispace")), << >>)
multispace1(input) ==
    IF SpanLen(input, "multispace") = 0 THEN PErr(input) ELSE multispace0(input)

\* tag(t), tag_no_case(t) for a lower-case t, char(c)
StartsWith(input, t) == Len(input) >= Len(t) /\ Take(input, Len(t)) = t
tag(t, input) == IF StartsWith(input, t) THEN POk(Drop(input, Len(t)), t) ELSE PErr(input)
tag_no_case(t, input) ==
    IF Len(input) >= Len(t) /\ \A i \in 1..Len(t) : Lower(input[i]) = t[i]
    THEN POk(Drop(input, Len(t)), Take(input, Len(t)))
    ELSE PErr(input)
char(c, input) == tag(<< c >>, input)

identifier(input) ==
    IF input = << >> \/ ~(InClass(input[1], "alpha") \/ input[1] = "_") THEN PErr(input)
    ELSE LET first == IF input[1] = "_" THEN 1 ELSE SpanLen(input, "alpha")
             n == first + SpanLen(Drop(input, first), "alphanumeric_")
         IN  POk(Drop(input, n), Str(Take(input, n)))

column_expression(input) ==
    LET name == identifier(input)
    IN  IF ~name.ok THEN name ELSE POk(name.rest, Expr_Column(name.v))

boolean_literal(input) ==
    IF tag_no_case(<< "t", "r", "u", "e" >>, input).ok
    THEN POk(tag_no_case(<< "t", "r", "u", "e" >>, input).rest, Expr_Literal(Value_Boolean(TRUE)))
    ELSE IF tag_no_case(<< "f", "a", "l", "s", "e" >>, input).ok
    THEN POk(tag_no_case(<< "f", "a", "l", "s", "e" >>, input).rest, Expr_Literal(Value_Boolean(FALSE)))
    ELSE PErr(input)

string_literal(input) ==
    LET open == char("'", input)
        n == SpanLen(open.rest, "not_quote")
        close == char("'", Drop(open.rest, n))
    IN  IF ~open.ok THEN open
        ELSE IF n = 0 THEN PErr(open.rest)
        ELSE IF ~close.ok THEN close
        ELSE POk(close.rest, Expr_Literal(Value_Varchar(StrBytes(Take(open.rest, n)))))

\* str::parse::<i32> of an optional '-' and digits: minus the magnitude, or
\* overflow (below I32_MIN)
RECURSIVE NegMagnitude(_, _)
NegMagnitude(digits, acc) ==
    IF digits = << >> THEN [ok |-> TRUE, v |-> acc]
    ELSE LET d == DigitValue(digits[1])
         IN  IF acc < -214748364 \/ (acc = -214748364 /\ d > 8) THEN [ok |-> FALSE, v |-> 0]
             ELSE NegMagnitude(Tail(digits), acc * 10 - d)
parse_i32(negative, digits) ==
    LET m == NegMagnitude(digits, 0)
    IN  IF ~m.ok THEN m
        ELSE IF negative THEN m
        ELSE IF m.v = I32_MIN THEN [ok |-> FALSE, v |-> 0]
        ELSE [ok |-> TRUE, v |-> -m.v]

integer_literal(input) ==
    LET sign == char("-", input)
        i1 == IF sign.ok THEN sign.rest ELSE input
        n == SpanLen(i1, "digit")
        value == parse_i32(sign.ok, Take(i1, n))
    IN  IF n = 0 THEN PErr(i1)
        ELSE IF ~value.ok THEN PErr(Drop(i1, n))
        ELSE POk(Drop(i1, n), Expr_Literal(Value_Integer(value.v)))

literal_expression(input) ==
    Let(integer_literal(input), LAMBDA int :
        IF int.ok THEN int
        ELSE Let(string_literal(input), LAMBDA str :
                 IF str.ok THEN str ELSE boolean_literal(input)))

RECURSIVE expression(_)

primary_expression(input) ==
    Let(literal_expression(input), LAMBDA lit :
        IF lit.ok THEN lit
        ELSE Let(column_expression(input), LAMBDA col :
        IF col.ok THEN col
        ELSE Let(char("(", input), LAMBDA open :
        IF ~open.ok THEN open
        ELSE Let(expression(multispace0(open.rest).rest), LAMBDA inner :
        IF ~inner.ok THEN inner
        ELSE Let(char(")", multispace0(inner.rest).rest), LAMBDA close :
        IF ~close.ok THEN close
        ELSE POk(close.rest, inner.v))))))

\* many0(tuple((preceded(multispace0, alt(('*', '/'))),
\*              preceded(multispace0, primary_expression)))), folded to the left
RECURSIVE multiplicative_rest(_, _)
multiplicative_rest(input, acc) ==
    Let(multispace0(input).rest, LAMBDA i1 :
    Let(IF char("*", i1).ok THEN "Mul" ELSE IF char("/", i1).ok THEN "Div" ELSE "none",
        LAMBDA op :
        IF op = "none" THEN POk(input, acc)
        ELSE Let(primary_expression(multispace0(Drop(i1, 1)).rest), LAMBDA right :
                 IF ~right.ok THEN POk(input, acc)
                 ELSE multiplicative_rest(right.rest, Expr_BinaryOp(acc, op, right.v)))))

multiplicative_expression(input) ==
    Let(primary_expression(input), LAMBDA left :
        IF ~left.ok THEN left ELSE multiplicative_rest(left.rest, left.v))

RECURSIVE additive_rest(_, _)
additive_rest(input, acc) ==
    Let(multispace0(input).rest, LAMBDA i1 :
    Let(IF char("+", i1).ok THEN "Add" ELSE IF char("-", i1).ok THEN "Sub" ELSE "none",
        LAMBDA op :
        IF op = "none" THEN POk(input, acc)
        ELSE Let(multiplicative_expression(multispace0(Drop(i1, 1)).rest), LAMBDA right :
                 IF ~right.ok THEN POk(input, acc)
                 ELSE additive_rest(right.rest, Expr_BinaryOp(acc, op, right.v)))))

additive_expression(input) ==
    Let(multiplicative_expression(input), LAMBDA left :
        IF ~left.ok THEN left ELSE additive_rest(left.rest, left.v))

\* alt((tag(">="), tag("<="), tag("<>"), tag("!="), tag("="), tag("<"), tag(">")))
comparison_operator(input) ==
    CASE StartsWith(input, << ">", "=" >>) -> POk(Drop(input, 2), "Ge")
      [] StartsWith(input, << "<", "=" >>) -> POk(Drop(input, 2), "Le")
      [] StartsWith(input, << "<", ">" >>) -> POk(Drop(input, 2), "Ne")
      [] StartsWith(input, << "!", "=" >>) -> POk(Drop(input, 2), "Ne")
      [] OTHER ->
            IF StartsWith(input, << "=" >>) THEN POk(Drop(input, 1), "Eq")
            ELSE IF StartsWith(input, << "<" >>) THEN POk(Drop(input, 1), "Lt")
            ELSE IF StartsWith(input, << ">" >>) THEN POk(Drop(input, 1), "Gt")
            ELSE PErr(input)

equality_expression(input) ==
    Let(additive_expression(input), LAMBDA left :
        IF ~left.ok THEN left
        ELSE Let(comparison_operator(multispace0(left.rest).rest), LAMBDA op :
        IF ~op.ok THEN left
        ELSE Let(additive_expression(multispace0(op.rest).rest), LAMBDA right :
        IF ~right.ok THEN left
        ELSE POk(right.rest, Expr_BinaryOp(left.v, op.v, right.v)))))

RECURSIVE and_rest(_, _)
and_rest(input, acc) ==
    Let(tag_no_case(<< "a", "n", "d" >>, multispace0(input).rest), LAMBDA op :
        IF ~op.ok THEN POk(input, acc)
        ELSE Let(equality_expression(multispace0(op.rest).rest), LAMBDA right :
                 IF ~right.ok THEN POk(input, acc)
                 ELSE and_rest(right.rest, Expr_BinaryOp(acc, "And", right.v))))

and_expression(input) ==
    Let(equality_expression(input), LAMBDA left :
        IF ~left.ok THEN left ELSE and_rest(left.rest, left.v))

RECURSIVE or_rest(_, _)
or_rest(input, acc) ==
    Let(tag_no_case(<< "o", "r" >>, multispace0(input).rest), LAMBDA op :
        IF ~op.ok THEN POk(input, acc)
        ELSE Let(and_expression(multispace0(op.rest).rest), LAMBDA right :
                 IF ~right.ok THEN POk(input, acc)
                 ELSE or_rest(right.rest, Expr_BinaryOp(acc, "Or", right.v))))

or_expression(input) ==
    Let(and_expression(input), LAMBDA left :
        IF ~left.ok THEN left ELSE or_rest(left.rest, left.v))

expression(input) == or_expression(input)

select_item(input) ==
    Let(char("*", input), LAMBDA star :
        IF star.ok THEN POk(star.rest, Wildcard)
        ELSE Let(expression(input), LAMBDA expr :
                 IF ~expr.ok THEN expr
                 ELSE POk(expr.rest, SelectItem_Expression(expr.v))))

\* separated_list1(delimited(multispace0, char(','), multispace0), select_item),
\* after its first item
RECURSIVE select_list_rest(_, _)
select_list_rest(input, items) ==
    Let(char(",", multispace0(input).rest), LAMBDA sep :
        IF ~sep.ok THEN POk(input, items)
        ELSE Let(select_item(multispace0(sep.rest).rest), LAMBDA item :
                 IF ~item.ok THEN POk(input, items)
                 ELSE select_list_rest(item.rest, Append(items, item.v))))

select_list(input) ==
    Let(select_item(input), LAMBDA item :
        IF ~item.ok THEN item ELSE select_list_rest(item.rest, << item.v >>))

\* preceded(multispace1, tag_no_case(keyword)) and the multispace1 after it
clause_keyword(keyword, input) ==
    Let(multispace1(input), LAMBDA sp :
        IF ~sp.ok THEN sp
        ELSE Let(tag_no_case(keyword, sp.rest), LAMBDA kw :
                 IF ~kw.ok THEN kw ELSE multispace1(kw.rest)))

from_clause(input) ==
    Let(clause_keyword(<< "f", "r", "o", "m" >>, input), LAMBDA kw :
        IF ~kw.ok THEN kw ELSE identifier(kw.rest))

where_clause(input) ==
    Let(clause_keyword(<< "w", "h", "e", "r", "e" >>, input), LAMBDA kw :
        IF ~kw.ok THEN kw ELSE expression(kw.rest))

\* str::parse::<u32> of digits: the number, or overflow. Numbers above
\* I32_MAX that fit u32 (ten digits, up to 4294967295) are not represented.
RECURSIVE parse_u32(_, _)
parse_u32(digits, acc) ==
    IF digits = << >> THEN [ok |-> TRUE, v |-> acc]
    ELSE LET d == DigitValue(digits[1])
         IN  IF acc > 214748364 \/ (acc = 214748364 /\ d > 7) THEN [ok |-> FALSE, v |-> 0]
             ELSE parse_u32(Tail(digits), acc * 10 + d)

limit_clause(input) ==
    Let(clause_keyword(<< "l", "i", "m", "i", "t" >>, input), LAMBDA kw :
        IF ~kw.ok THEN kw
        ELSE Let(SpanLen(kw.rest, "digit"), LAMBDA n :
        IF n = 0 THEN PErr(kw.rest)
        ELSE Let(parse_u32(Take(kw.rest, n), 0), LAMBDA limit :
        IF ~limit.ok THEN PErr(Drop(kw.rest, n))
        ELSE POk(Drop(kw.rest, n), limit.v))))

\* opt(parser): Some and the parser's rest, or None and the input
Opt(r, input) == IF r.ok THEN POk(r.rest, Opt_Some(r.v)) ELSE POk(input, Opt_None)

select_statement(input) ==
    Let(tag_no_case(<< "s", "e", "l", "e", "c", "t" >>, input), LAMBDA kw :
        IF ~kw.ok THEN kw
        ELSE Let(multispace1(kw.rest), LAMBDA sp :
        IF ~sp.ok THEN sp
        ELSE Let(select_list(sp.rest), LAMBDA list :
        IF ~list.ok THEN list
        ELSE Let(Opt(from_clause(list.rest), list.rest), LAMBDA from :
             Let(Opt(where_clause(from.rest), from.rest), LAMBDA where :
             Let(Opt(limit_clause(where.rest), where.rest), LAMBDA limit :
                 POk(multispace0(limit.rest).rest,
                     SelectStatement(list.v, from.v, where.v, limit.v))))))))

statement(input) == select_statement(multispace0(input).rest)

\* parse_sql: the statement, whatever statement() left of the input
parse_sql(input) ==
    Let(statement(input), LAMBDA r : IF r.ok THEN Ok(r.v) ELSE Err("Parse error"))

\* the bytes of a row as the tests serialize it: the values' bytes in order
RECURSIVE RowBytes(_)
RowBytes(row) == IF row = << >> THEN << >> ELSE to_bytes(Head(row)) \o RowBytes(Tail(row))

\* the heap page pid holding the tuples, inserted in order
RECURSIVE HeapPageOf(_, _)
HeapPageOf(pid, tuples) ==
    IF tuples = << >> THEN new_empty(pid)
    ELSE insert_tuple(HeapPageOf(pid, SubSeq(tuples, 1, Len(tuples) - 1)),
                      tuples[Len(tuples)]).buf

\* the schema of the filtered queries: an integer and a boolean column
MixedSchema ==
    Schema_new(<< Column("id", DataType_Integer, FALSE),
                  Column("active", DataType_Boolean, FALSE) >>)

\* the schemas of the scans: one boolean column, one integer column (as in
\* tests::test_seq_scan_plan)
FlagSchema == Schema_new(<< Column("active", DataType_Boolean, FALSE) >>)
IdSchema == Schema_new(<< Column("id", DataType_Integer, FALSE) >>)
\* one varchar column
NameSchema == Schema_new(<< Column("name", DataType_Varchar(255), TRUE) >>)

\* the pages handed to write_page before a scan. Page 0 of file 1: two one-byte
\* rows; a deleted row followed by a live one; one four-byte row; a page with a
\* stale checksum. Page 1 of file 1: two one-byte rows. Page 0 of file 2: one row
ScanPageArgs ==
    { HeapPageOf(PageId_new(1, 0), << << 1 >>, << 0 >> >>),
      insert_tuple(delete_tuple(HeapPageOf(PageId_new(1, 0), << << 1 >> >>), 0).buf,
                   << 0 >>).buf,
      HeapPageOf(PageId_new(1, 0), << i32_to_le_bytes(5) >>),
      set_lsn(new_empty(PageId_new(1, 0)), [hi |-> 0, lo |-> 7]),
      HeapPageOf(PageId_new(1, 1), << << 0 >>, << 1 >> >>),
      HeapPageOf(PageId_new(2, 0), << << 1 >> >>) }

ScanTables == << "users", "orders" >>
ScanPlans ==
    << SeqScan("users", FlagSchema), SeqScan("orders", FlagSchema),
       SeqScan("users", IdSchema), SeqScan("orders", IdSchema),
       SeqScan("users", NameSchema), SeqScan("users", MixedSchema) >>

\* the pages handed to write_page before a query: in each of the two pages of
\* file 1, one row (id, active) or two one-byte rows
QueryPageArgs ==
    { HeapPageOf(PageId_new(1, 0), << RowBytes(<< Value_Integer(5), Value_Boolean(TRUE) >>) >>),
      HeapPageOf(PageId_new(1, 0), << << 1 >>, << 0 >> >>),
      HeapPageOf(PageId_new(1, 1), << RowBytes(<< Value_Integer(7), Value_Boolean(FALSE) >>) >>),
      HeapPageOf(PageId_new(1, 1), << << 0 >>, << 1 >> >>) }

\* the predicates of the filters: those that evaluate to a boolean on the rows
\* they can be evaluated on ..
BooleanPredicates ==
    << Expr_Column("active"),
       Expr_Literal(Value_Boolean(TRUE)),
       Expr_Literal(Value_Boolean(FALSE)),
       Expr_BinaryOp(Expr_Column("id"), "Eq", Expr_Literal(Value_Integer(5))),
       Expr_BinaryOp(Expr_Column("id"), "Lt", Expr_Literal(Value_Integer(7))),
       Expr_BinaryOp(Expr_Column("active"), "Or",
                     Expr_BinaryOp(Expr_Column("id"), "Ge", Expr_Literal(Value_Integer(6)))),
       Expr_BinaryOp(Expr_Literal(Value_Varchar(<< 97 >>)), "Lt",
                     Expr_Literal(Value_Varchar(<< 98 >>))),
       Expr_BinaryOp(Expr_BinaryOp(Expr_Column("id"), "Add", Expr_Literal(Value_Integer(2))),
                     "Eq", Expr_Literal(Value_Integer(7))) >>
\* .. and those that evaluate to another value
OtherPredicates ==
    << Expr_Literal(Value_Integer(5)),
       Expr_Literal(Value_Varchar(<< 97 >>)),
       Expr_Literal(Value_Null),
       Expr_Column("id"),
       Expr_BinaryOp(Expr_Column("id"), "Add", Expr_Literal(Value_Integer(1))),
       Expr_BinaryOp(Expr_Literal(Value_Integer(6)), "Div", Expr_Literal(Value_Integer(2))),
       Expr_BinaryOp(Expr_Literal(Value_Varchar(<< 97 >>)), "Add",
                     Expr_Literal(Value_Varchar(<< 98 >>))) >>
Predicates == BooleanPredicates \o OtherPredicates

QuerySchemas == << FlagSchema, MixedSchema >>
Limits == << 0, 1, 2, 3 >>

\* the plans of the queries: a filter over a scan, a limit over a scan, and
\* each of them over the other
QueryPlans ==
    LET scan(k) == SeqScan("users", QuerySchemas[k])
        n == Len(Predicates)
    IN  [i \in 1..(2 * n) |->
            Filter(Predicates[((i - 1) % n) + 1], scan(((i - 1) \div n) + 1))]
        \o [i \in 1..(2 * Len(Limits)) |->
            Limit(Limits[((i - 1) % Len(Limits)) + 1], scan(((i - 1) \div Len(Limits)) + 1))]
        \o << Limit(1, Filter(Expr_Column("active"), scan(1))),
              Filter(Expr_Column("active"), Limit(3, scan(1))),
              Filter(Expr_Literal(Value_Integer(5)), Limit(0, scan(1))) >>

\* the operands and operators of the arithmetic that is evaluated
IntArgs == << I32_MIN, -1, 0, 2, I32_MAX >>
ArithOps == << "Add", "Sub", "Mul", "Div" >>

\* the pages handed to write_page before the arithmetic: page 0 of file 1 with
\* the row (id = 5), page 1 with the row (id = 0)
ArithPageArgs ==
    { HeapPageOf(PageId_new(1, 0), << RowBytes(<< Value_Integer(5) >>) >>),
      HeapPageOf(PageId_new(1, 1), << RowBytes(<< Value_Integer(0) >>) >>) }

\* 10 / id
TenById == Expr_BinaryOp(Expr_Literal(Value_Integer(10)), "Div", Expr_Column("id"))

\* the plans that evaluate arithmetic: the projection of each operator on each
\* pair of operands, and projections, filters and limits that divide by a column
ArithPlans ==
    LET scan == SeqScan("users", IdSchema)
        n == Len(IntArgs)
        lit(k) == Expr_Literal(Value_Integer(IntArgs[k]))
    IN  [i \in 1..(n * n * Len(ArithOps)) |->
            Projection(<< Expr_BinaryOp(lit(((i - 1) % n) + 1),
                                        ArithOps[((i - 1) \div (n * n)) + 1],
                                        lit((((i - 1) \div n) % n) + 1)) >>, scan)]
        \o << Projection(<< Expr_Column("id"), TenById >>, scan),
              Limit(1, Projection(<< TenById >>, scan)),
              Filter(Expr_BinaryOp(TenById, "Eq", Expr_Literal(Value_Integer(2))), scan),
              Filter(Expr_BinaryOp(Expr_Literal(Value_Boolean(TRUE)), "Or",
                                   Expr_BinaryOp(Expr_Literal(Value_Integer(2)), "Lt", TenById)),
                     scan),
              Filter(TenById, scan),
              Projection(<< TenById >>,
                         Filter(Expr_BinaryOp(Expr_Column("id"), "Ne",
                                              Expr_Literal(Value_Integer(0))), scan)),
              Projection(<< Expr_BinaryOp(TenById, "Add", Expr_Literal(Value_Integer(1))) >>,
                         Limit(1, scan)) >>

\* the pages handed to write_page before a statement is executed: in each of
\* the two pages of file 1, one row (id, name) of the planner's schema
SelectPageArgs ==
    { HeapPageOf(PageId_new(1, 0),
                 << RowBytes(<< Value_Integer(5), Value_Varchar(<< 97 >>) >>) >>),
      HeapPageOf(PageId_new(1, 0),
                 << RowBytes(<< Value_Integer(7), Value_Varchar(<< 98 >>) >>) >>),
      HeapPageOf(PageId_new(1, 1),
                 << RowBytes(<< Value_Integer(7), Value_Varchar(<< 98 >>) >>) >>),
      HeapPageOf(PageId_new(1, 1),
                 << RowBytes(<< Value_Integer(9), Value_Varchar(<< 99 >>) >>) >>) }

\* the texts handed to execute_sql: SELECT, then one select list (the last one
\* is an unterminated string), one FROM clause, one WHERE clause and one LIMIT
\* clause of these
SqlSelect == << "S", "E", "L", "E", "C", "T", " " >>
SqlLists ==
    << << "*" >>,
       << "n", "a", "m", "e" >>,
       << "i", "d", ",", " ", "n", "a", "m", "e" >>,
       << "n", "a", "m", "e", ",", " ", "*" >>,
       << "'", "a" >> >>
SqlFroms ==
    << << >>,
       << " ", "F", "R", "O", "M", " ", "u", "s", "e", "r", "s" >> >>
SqlWheres ==
    << << >>,
       << " ", "W", "H", "E", "R", "E", " ", "i", "d", " ", "=", " ", "7" >>,
       << " ", "W", "H", "E", "R", "E", " ", "i", "d", " ", ">", "=", " ", "7" >>,
       << " ", "W", "H", "E", "R", "E", " ", "n", "a", "m", "e", " ", "=", " ", "'", "b", "'" >>,
       << " ", "W", "H", "E", "R", "E", " ", "i", "d" >> >>
SqlLimits ==
    << << >>,
       << " ", "L", "I", "M", "I", "T", " ", "0" >>,
       << " ", "L", "I", "M", "I", "T", " ", "1" >>,
       << " ", "L", "I", "M", "I", "T", " ", "2" >> >>
SqlTexts ==
    LET nl == Len(SqlLists)
        nf == Len(SqlFroms)
        nw == Len(SqlWheres)
    IN  [i \in 1..(nl * nf * nw * Len(SqlLimits)) |->
            SqlSelect \o SqlLists[((i - 1) % nl) + 1]
                      \o SqlFroms[(((i - 1) \div nl) % nf) + 1]
                      \o SqlWheres[(((i - 1) \div (nl * nf)) % nw) + 1]
                      \o SqlLimits[((i - 1) \div (nl * nf * nw)) + 1]]

\* the select items, lists, and statements handed to the planner
SelectItems ==
    << Wildcard, SelectItem_Expression(Expr_Column("id")),
       SelectItem_Expression(Expr_Column("name")) >>
RECURSIVE SelectLists(_)
SelectLists(n) ==
    IF n = 0 THEN << << >> >>
    ELSE LET shorter == SelectLists(n - 1)
             m == Len(SelectItems)
         IN  [i \in 1..(m * Len(shorter)) |->
                << SelectItems[((i - 1) % m) + 1] >> \o shorter[((i - 1) \div m) + 1]]
FromClauses == << Opt_None, Opt_Some("users"), Opt_Some("orders") >>
WhereClauses ==
    << Opt_None,
       Opt_Some(Expr_BinaryOp(Expr_Column("id"), "Eq", Expr_Literal(Value_Integer(5)))) >>
LimitClauses == << Opt_None, Opt_Some(0), Opt_Some(2) >>

\* the statements with a select list of n items
StatementsOf(n) ==
    LET lists == SelectLists(n)
        nl == Len(lists)
        nf == Len(FromClauses)
        nw == Len(WhereClauses)
    IN  [i \in 1..(nl * nf * nw * Len(LimitClauses)) |->
            SelectStatement(lists[((i - 1) % nl) + 1],
                            FromClauses[(((i - 1) \div nl) % nf) + 1],
                            WhereClauses[(((i - 1) \div (nl * nf)) % nw) + 1],
                            LimitClauses[((i - 1) \div (nl * nf * nw)) + 1])]
\* the statements with a select list of one to n items
RECURSIVE StatementsUpTo(_)
StatementsUpTo(n) == IF n = 0 THEN << >> ELSE StatementsUpTo(n - 1) \o StatementsOf(n)
SelectStatements == StatementsUpTo(MaxItems)

\* the texts handed to parse_sql are made of one fragment of each kind, in
\* this order: the SELECT keyword or something else, the select list, the FROM
\* clause, the WHERE clause, the LIMIT clause, and what follows
Fragments ==
    << << << "S", "E", "L", "E", "C", "T", " " >>,
         << "s", "e", "l", "e", "c", "t", " " >>,
         << " ", " ", "S", "e", "l", "e", "c", "t", "\t" >>,
         << "F", "R", "O", "M", " " >>,
         << "I", "N", "V", "A", "L", "I", "D", " " >> >>,
       << << "*" >>,
         << "i", "d" >>,
         << "*", ",", " ", "i", "d" >>,
         << "4", "2" >>,
         << "'", "h", "e", "l", "l", "o" >>,
         << "i", "d", " ", "+", " ", "1", " ", "*", " ", "(", "2", " ", "-",
            " ", "x", ")" >>,
         << "n", "a", "m", "e", " ", ",", " ", "'", "a", "'" >> >>,
       << << >>,
         << " ", "F", "R", "O", "M", " ", "u", "s", "e", "r", "s" >>,
         << " ", "f", "r", "o", "m", " ", "o", "r", "d", "e", "r", "s" >> >>,
       << << >>,
         << " ", "W", "H", "E", "R", "E", " ", "i", "d", " ", "=", " ", "5" >>,
         << " ", "W", "H", "E", "R", "E", " ", "a", "c", "t", "i", "v", "e",
            " ", "A", "N", "D", " ", "i", "d", " ", ">", "=", " ", "2", " ",
            "O", "R", " ", "n", "a", "m", "e", " ", "<", ">", " ", "'", "x",
            "'" >>,
         << " ", "W", "H", "E", "R", "E" >> >>,
       << << >>,
         << " ", "L", "I", "M", "I", "T", " ", "2" >>,
         << " ", "L", "I", "M", "I", "T", " ", "x" >> >>,
       << << >>,
         << " " >>,
         << " ", "g", "a", "r", "b", "a", "g", "e" >>,
         << ";" >>,
         << " ", "O", "R", "D", "E", "R", " ", "B", "Y", " ", "i", "d" >> >> >>

\* those of the pages whose checksum is valid
ValidPageArgs ==
    { page \in PageArgs \cup ScanPageArgs \cup QueryPageArgs \cup ArithPageArgs
             \cup SelectPageArgs :
        verify_checksum(page) }

\* ---------------------------------------------------------------- state
VARIABLES
    buf,        \* HeapPage.page.buf
    prev,       \* the buffer before the last call
    last,       \* the last call: [op, tuple, slot_no, ok, ret]
    inserted,   \* the tuples of the successful insert_tuple calls, in call order
    deleted,    \* the slot numbers of the successful delete_tuple calls
    other,      \* TRUE once a call was not a successful insert_tuple
    disk,       \* the data directory: file id -> [exists, data]
    written,    \* page id -> the valid page last written to it, if any
    dlast,      \* the last disk manager call: [op, pid, ok, err, page]
    allocated,  \* file id -> the page numbers allocate_page returned, in call order
    grown,      \* the files whose length a write_page changed
    procs,      \* allocator -> its allocate_page call: [pc, f, len, mixed]
    alog,       \* the completed calls of the allocators: [p, f, pid, mixed]
    qlast,      \* the last execute call, if the data directory was not changed since
    nq,         \* the number of execute calls since the data directory was changed
    planned,    \* the last call of QueryPlanner::plan: [op, stmt, res]
    sql,        \* the text being written: [text, n], n the number of its fragments
    parsed      \* the call of parse_sql on that text: [op, input, res]

heapVars == << buf, prev, last, inserted, deleted, other >>
diskVars == << disk, written, dlast, allocated, grown >>
allocVars == << procs, alog >>
queryVars == << overflow_checks, qlast, nq, planned, sql, parsed >>
vars == << buf, prev, last, inserted, deleted, other,
           disk, written, dlast, allocated, grown, procs, alog,
           overflow_checks, qlast, nq, planned, sql, parsed >>

Call(op, tuple, slot_no, ok, ret) ==
    [op |-> op, tuple |-> tuple, slot_no |-> slot_no, ok |-> ok, ret |-> ret]

DiskCall(op, pid, ok, err, page) ==
    [op |-> op, pid |-> pid, ok |-> ok, err |-> err, page |-> page]
NotWritten == [set |-> FALSE, buf |-> << >>]
\* the allocators that share the data directory, and one that is not in a call
Allocators == {1, 2}
Idle == [pc |-> "idle", f |-> 0, len |-> 0, mixed |-> FALSE]
\* no query was executed on the current contents of the data directory
NoQuery == [op |-> "none", plan |-> << >>, res |-> << >>]
ResetQuery == qlast' = NoQuery /\ nq' = 0 /\ UNCHANGED << overflow_checks, planned, sql, parsed >>
\* the planner was not called
NoPlan == [op |-> "none"]
\* parse_sql was not called on the text
NoParse == [op |-> "none"]

\* a page from new_empty, and an empty data directory
Constructed ==
    /\ \E pid \in PageIds : buf = new_empty(pid)
    /\ prev = buf
    /\ last = Call("new_empty", << >>, 0, TRUE, 0)
    /\ inserted = << >>
    /\ deleted = {}
    /\ other = FALSE
    /\ disk = [f \in FileIds |-> NoFile]
    /\ written = [pid \in DiskPageIds |-> NotWritten]
    /\ dlast = DiskCall("new", PageId_new(0, 0), TRUE, "", << >>)
    /\ allocated = [f \in FileIds |-> << >>]
    /\ grown = {}
    /\ procs = [p \in Allocators |-> Idle]
    /\ alog = << >>
    /\ qlast = NoQuery
    /\ nq = 0
    /\ planned = NoPlan
    /\ sql = [text |-> << >>, n |-> 0]
    /\ parsed = NoParse

\* .. in a build with overflow checks (the dev and test profiles)
Init == Constructed /\ overflow_checks = TRUE

\* .. in a build with or without overflow checks (the release profile wraps)
InitAnyBuild == Constructed /\ overflow_checks \in BOOLEAN

InsertTuple(tuple) ==
    LET r == insert_tuple(buf, tuple)
    IN  /\ buf' = r.buf
        /\ prev' = buf
        /\ last' = Call("insert_tuple", tuple, 0, r.ok, r.ret)
        /\ inserted' = IF r.ok THEN Append(inserted, tuple) ELSE inserted
        /\ other' = (other \/ ~r.ok)
        /\ UNCHANGED << deleted, diskVars, allocVars, queryVars >>

DeleteTuple(slot_no) ==
    LET r == delete_tuple(buf, slot_no)
    IN  /\ buf' = r.buf
        /\ prev' = buf
        /\ last' = Call("delete_tuple", << >>, slot_no, r.ok, 0)
        /\ deleted' = IF r.ok THEN deleted \cup {slot_no} ELSE deleted
        /\ other' = TRUE
        /\ UNCHANGED << inserted, diskVars, allocVars, queryVars >>

Compact ==
    /\ buf' = compact(buf)
    /\ prev' = buf
    /\ last' = Call("compact", << >>, 0, TRUE, 0)
    /\ other' = TRUE
    /\ UNCHANGED << inserted, deleted, diskVars, allocVars, queryVars >>

\* one heap page under insert_tuple, delete_tuple and compact
Next ==
    \/ \E tuple \in TupleArgs : InsertTuple(tuple)
    \/ \E slot_no \in SlotArgs : DeleteTuple(slot_no)
    \/ Compact

Spec == Init /\ [][Next]_vars

\* ------------------------------------------------------ the Page mutators
\* the arguments of the mutators
LsnArgs == { [hi |-> 0, lo |-> 0], [hi |-> 0, lo |-> 7] }
LowerArgs == { PageHeader_LEN, PageHeader_LEN + 2 }
UpperArgs == { PAGE_SIZE, PAGE_SIZE - Slot_SIZE }
OffsetArgs == { PageHeader_LEN, PAGE_SIZE - 2 }
U16Args == { 0, 258 }
HeaderArgs ==
    { PageHeader_new(pid, flags) : pid \in PageIds, flags \in { Heap, Index } }

PageMutators == { "write_header", "set_lsn", "set_lower", "set_upper", "write_u16" }

\* what a call op of Page leaves besides the buffer
PageCall(op) ==
    /\ prev' = buf
    /\ last' = Call(op, << >>, 0, TRUE, 0)
    /\ other' = TRUE
    /\ UNCHANGED << inserted, deleted, diskVars, allocVars, queryVars >>

WriteHeader(hdr) ==
    /\ buf' = write_header(buf, hdr)
    /\ PageCall("write_header")

SetLsn(lsn) ==
    /\ buf' = set_lsn(buf, lsn)
    /\ PageCall("set_lsn")

SetLower(lower) ==
    /\ buf' = set_lower(buf, lower)
    /\ PageCall("set_lower")

SetUpper(upper) ==
    /\ buf' = set_upper(buf, upper)
    /\ PageCall("set_upper")

WriteU16(offset, value) ==
    /\ buf' = write_u16(buf, offset, value)
    /\ PageCall("write_u16")

RecomputeChecksum ==
    /\ buf' = recompute_checksum(buf)
    /\ PageCall("recompute_checksum")

PageNext ==
    \/ \E hdr \in HeaderArgs : WriteHeader(hdr)
    \/ \E lsn \in LsnArgs : SetLsn(lsn)
    \/ \E lower \in LowerArgs : SetLower(lower)
    \/ \E upper \in UpperArgs : SetUpper(upper)
    \/ \E offset \in OffsetArgs, value \in U16Args : WriteU16(offset, value)
    \/ RecomputeChecksum

\* one Page under its own mutators and recompute_checksum
PageSpec == Init /\ [][PageNext]_vars

\* ---------------------------------------------------- the disk manager
AllocatePage(f) ==
    LET r == allocate_page(disk, f)
    IN  /\ Len(disk[f].data) < MaxPages * PAGE_SIZE
        /\ disk' = r.disk
        /\ dlast' = DiskCall("allocate_page", r.pid, r.ok, "", << >>)
        /\ allocated' = [allocated EXCEPT ![f] = Append(@, page_no(r.pid))]
        /\ ResetQuery
        /\ UNCHANGED << written, grown, heapVars, allocVars >>

ReadPage(pid) ==
    LET r == read_page(disk, pid)
    IN  /\ disk' = r.disk
        /\ dlast' = DiskCall("read_page", pid, r.ok, r.err, r.page)
        /\ ResetQuery
        /\ UNCHANGED << written, allocated, grown, heapVars, allocVars >>

WritePage(page) ==
    LET r == write_page(disk, page)
    IN  /\ disk' = r.disk
        /\ dlast' = DiskCall("write_page", page_id(page), r.ok, "", page)
        /\ written' = [written EXCEPT ![page_id(page)] =
                          IF page \in ValidPageArgs
                          THEN [set |-> TRUE, buf |-> page]
                          ELSE NotWritten]
        /\ grown' = LET f == file_id(page_id(page))
                    IN  IF Len(r.disk[f].data) # Len(disk[f].data)
                        THEN grown \cup {f} ELSE grown
        /\ ResetQuery
        /\ UNCHANGED << allocated, heapVars, allocVars >>

DiskNext ==
    \/ \E f \in FileIds : AllocatePage(f)
    \/ \E pid \in DiskPageIds : ReadPage(pid)
    \/ \E page \in PageArgs : WritePage(page)

\* one FsDiskManager over an initially empty data directory, used sequentially
DiskSpec == Init /\ [][DiskNext]_vars

ValidDiskNext ==
    \/ \E f \in FileIds : AllocatePage(f)
    \/ \E pid \in DiskPageIds : ReadPage(pid)
    \/ \E page \in PageArgs \cap ValidPageArgs : WritePage(page)

\* one FsDiskManager over an initially empty data directory that is only
\* handed pages whose checksum is valid
ValidDiskSpec == Init /\ [][ValidDiskNext]_vars

\* ------------------------------------- a file changed behind the manager
\* the offsets within a page, and the byte values, written behind the manager
CorruptOffsets == {4, 25, PAGE_SIZE - 1}
CorruptBytes == {255}

\* the PAGE_SIZE bytes stored for pid, or << >> when the file is shorter
StoredPage(d, pid) ==
    LET data == d[file_id(pid)].data
        off == page_no(pid) * PAGE_SIZE
    IN  IF off + PAGE_SIZE > Len(data) THEN << >> ELSE Slice(data, off, off + PAGE_SIZE)

\* OpenOptions::new().write(true).open(path); seek(Start(..)); write_all(&[val])
\* on a file that holds the page
CorruptByte(pid, off, val) ==
    /\ StoredPage(disk, pid) # << >>
    /\ At(StoredPage(disk, pid), off) # val
    /\ disk' = [disk EXCEPT ![file_id(pid)].data =
                    WriteAt(@, page_no(pid) * PAGE_SIZE + off, << val >>)]
    /\ dlast' = DiskCall("corrupt", pid, TRUE, "", << >>)
    /\ ResetQuery
    /\ UNCHANGED << written, allocated, grown, heapVars, allocVars >>

\* the pages of the file that is written behind the manager
CorruptPageIds == { pid \in DiskPageIds : file_id(pid) = 1 }

CorruptNext ==
    \/ \E pid \in CorruptPageIds : ReadPage(pid)
    \/ \E page \in { p \in PageArgs : page_id(p) \in CorruptPageIds } : WritePage(page)
    \/ \E pid \in CorruptPageIds, off \in CorruptOffsets, val \in CorruptBytes :
          CorruptByte(pid, off, val)

\* one FsDiskManager whose files are also written by others
CorruptSpec == Init /\ [][CorruptNext]_vars

\* ---------------------------------------------------------- the executor
\* QueryExecutor::execute(plan, &mut dm)
Execute(plan) ==
    /\ nq < MaxQueries
    /\ \E r \in { execute(plan, disk) } :
          /\ disk' = r.disk
          /\ qlast' = [op |-> "execute", plan |-> plan,
                       res |-> [ok |-> r.ok, err |-> r.err, panic |-> r.panic,
                                rows |-> r.rows, schema |-> r.schema]]
    /\ nq' = nq + 1
    /\ UNCHANGED << overflow_checks, planned, sql, parsed, written, dlast,
                    allocated, grown, heapVars, allocVars >>

ScanNext ==
    \/ \E f \in FileIds : AllocatePage(f)
    \/ \E page \in ScanPageArgs : WritePage(page)
    \/ \E k \in 1..Len(ScanPlans) : Execute(ScanPlans[k])

\* sequential scans of a data directory that one FsDiskManager fills
ScanSpec == Init /\ [][ScanNext]_vars

QueryNext ==
    \/ AllocatePage(1)
    \/ \E page \in QueryPageArgs : WritePage(page)
    \/ \E k \in 1..Len(QueryPlans) : Execute(QueryPlans[k])

\* filters and limits over the scan of a table that one FsDiskManager fills
QuerySpec == Init /\ [][QueryNext]_vars

ArithNext ==
    \/ \E page \in ArithPageArgs : WritePage(page)
    \/ \E k \in 1..Len(ArithPlans) : Execute(ArithPlans[k])

\* arithmetic evaluated by queries over a table of integers, in either build
ArithSpec == InitAnyBuild /\ [][ArithNext]_vars

\* what execute returns, without the data directory it leaves
ResultOf(r) ==
    [ok |-> r.ok, err |-> r.err, panic |-> r.panic, rows |-> r.rows, schema |-> r.schema]

\* ---------------------------------------------------------- the command
\* execute_sql(sql, data_dir) of boxsqld: the text is parsed, the statement is
\* planned and the plan is executed on the data directory; an error of one
\* step ends the command, which then has no plan or no result
ExecuteSql(text) ==
    /\ nq < MaxQueries
    /\ \E stmt \in { parse_sql(text) } :
          /\ parsed' = [op |-> "parse", input |-> text, res |-> stmt]
          /\ IF ~stmt.ok
             THEN planned' = NoPlan /\ qlast' = NoQuery /\ UNCHANGED disk
             ELSE \E plan \in { QueryPlanner_plan(stmt.v) } :
                    /\ planned' = [op |-> "plan", stmt |-> stmt.v, res |-> plan]
                    /\ IF ~plan.ok
                       THEN qlast' = NoQuery /\ UNCHANGED disk
                       ELSE \E r \in { execute(plan.v, disk) } :
                              /\ disk' = r.disk
                              /\ qlast' = [op |-> "execute", plan |-> plan.v,
                                           res |-> ResultOf(r)]
    /\ nq' = nq + 1
    /\ UNCHANGED << overflow_checks, sql, written, dlast, allocated, grown,
                    heapVars, allocVars >>

\* the table is filled by write_page before the command is run
FillTable(page) ==
    /\ nq = 0
    /\ WritePage(page)

SelectNext ==
    \/ \E page \in SelectPageArgs : FillTable(page)
    \/ \E k \in 1..Len(SqlTexts) : ExecuteSql(SqlTexts[k])

\* SELECT statements executed on a table of the planner's schema
SelectSpec == Init /\ [][SelectNext]_vars

\* ----------------------------------------------------------- the planner
\* QueryPlanner::plan(&Statement::Select(select))
Plan(select) ==
    /\ planned' = [op |-> "plan", stmt |-> select, res |-> QueryPlanner_plan(select)]
    /\ UNCHANGED << overflow_checks, qlast, nq, sql, parsed, diskVars, heapVars,
                    allocVars >>

PlanNext ==
    \E i \in 1..Len(SelectStatements) : Plan(SelectStatements[i])

\* calls of the planner on SELECT statements
PlanSpec == Init /\ [][PlanNext]_vars

\* ------------------------------------------------------------ the parser
\* the text grows by its i-th fragment
Write(i, fragment) ==
    /\ sql.n + 1 = i
    /\ sql' = [text |-> sql.text \o fragment, n |-> sql.n + 1]
    /\ parsed' = NoParse
    /\ UNCHANGED << overflow_checks, qlast, nq, planned, diskVars, heapVars, allocVars >>

\* parse_sql(sql)
ParseSql ==
    /\ parsed = NoParse
    /\ parsed' = [op |-> "parse", input |-> sql.text, res |-> parse_sql(sql.text)]
    /\ UNCHANGED << overflow_checks, qlast, nq, planned, sql, diskVars, heapVars,
                    allocVars >>

ParseNext ==
    \/ \E i \in 1..Len(Fragments) :
          \E k \in 1..Len(Fragments[i]) : Write(i, Fragments[i][k])
    \/ ParseSql

\* calls of parse_sql on texts
ParseSpec == Init /\ [][ParseNext]_vars

\* ------------------------------------------------ concurrent allocators
\* the calls in progress on file f other than p's are marked as interleaved
Mix(ps, p, f) ==
    [q \in Allocators |->
        IF q # p /\ ps[q].pc = "measured" /\ ps[q].f = f
        THEN [ps[q] EXCEPT !.mixed = TRUE] ELSE ps[q]]

\* p enters allocate_page(f) and measures the file
AllocMeasure(p, f) ==
    LET m == alloc_measure(disk, f)
        mixed == \E q \in Allocators \ {p} : procs[q].pc = "measured" /\ procs[q].f = f
    IN  /\ procs[p].pc = "idle"
        /\ Len(alog) + Cardinality({q \in Allocators : procs[q].pc = "measured"}) < MaxAllocs
        /\ disk' = m.disk
        /\ procs' = [Mix(procs, p, f) EXCEPT
                         ![p] = [pc |-> "measured", f |-> f, len |-> m.len, mixed |-> mixed]]
        /\ UNCHANGED << alog, written, dlast, allocated, grown, heapVars, queryVars >>

\* p appends the page and returns
AllocAppend(p) ==
    LET c == procs[p]
        r == alloc_append(disk, c.f, c.len)
    IN  /\ c.pc = "measured"
        /\ disk' = r.disk
        /\ alog' = Append(alog, [p |-> p, f |-> c.f, pid |-> r.pid, mixed |-> c.mixed])
        /\ procs' = [Mix(procs, p, c.f) EXCEPT ![p] = Idle]
        /\ UNCHANGED << written, dlast, allocated, grown, heapVars, queryVars >>

AllocNext ==
    \/ \E p \in Allocators, f \in FileIds : AllocMeasure(p, f)
    \/ \E p \in Allocators : AllocAppend(p)

\* allocators whose allocate_page calls on one data directory interleave
AllocSpec == Init /\ [][AllocNext]_vars

\* ------------------------------------------------- heap page properties
\* the slot numbers read_tuple is compared on: every slot of either buffer and
\* the numbers past the directory that the calls use
Probes == 0..Max(MaxSlotArg, Max(slot_count(buf), slot_count(prev)))

RECURSIVE SumLen(_, _)
SumLen(b, n) == IF n = 0 THEN 0 ELSE read_slot(b, n - 1).len + SumLen(b, n - 1)
\* the sum of the lengths of the live tuples of a page
LiveLen(b) == SumLen(b, slot_count(b))

\* C1: after any sequence of insert_tuple, delete_tuple and compact calls, the
\* header satisfies 32 <= lower <= upper <= PAGE_SIZE, so that free_space() is
\* upper - lower without underflow.
C1_LowerUpper ==
    LET hdr == header(buf)
    IN  /\ PageHeader_LEN <= hdr.lower
        /\ hdr.lower <= hdr.upper
        /\ hdr.upper <= PAGE_SIZE
        /\ free_space(buf) = hdr.upper - hdr.lower

\* a full page (lower = upper) on which an insert has just failed, after a delete
C1_Witness ==
    /\ header(buf).lower = header(buf).upper
    /\ last.op = "insert_tuple" /\ ~last.ok
    /\ deleted # {}

\* C2: in a sequence of insert_tuple calls that all respect the free space, the
\* k-th call returns slot number k and afterwards read_tuple(i) returns exactly
\* the bytes passed to the i-th call.
C2_InsertsReadBack ==
    ~other =>
        /\ last.op = "insert_tuple" => last.ret = Len(inserted) - 1
        /\ \A i \in 1..Len(inserted) : read_tuple(buf, i - 1) = Some(inserted[i])

\* C3: after a successful delete_tuple(i), read_tuple(i) is None and every other
\* slot reads as it did before the call.
C3_DeleteFrame ==
    (last.op = "delete_tuple" /\ last.ok) =>
        /\ read_tuple(buf, last.slot_no) = None
        /\ \A j \in Probes \ {last.slot_no} : read_tuple(buf, j) = read_tuple(prev, j)

\* a live tuple was deleted while another slot holds a live tuple
C3_Witness ==
    /\ last.op = "delete_tuple" /\ last.ok
    /\ read_tuple(prev, last.slot_no).some
    /\ \E j \in Probes \ {last.slot_no} : read_tuple(buf, j).some

\* C4: compact() leaves read_tuple(i) unchanged for every slot number i.
C4_CompactPreservesReads ==
    last.op = "compact" => \A j \in Probes : read_tuple(buf, j) = read_tuple(prev, j)

\* a compaction that moved a live tuple to a new offset
C4_Witness ==
    /\ last.op = "compact"
    /\ \E j \in 0..(slot_count(buf) - 1) :
          /\ read_tuple(buf, j).some
          /\ read_slot(buf, j).off # read_slot(prev, j).off

\* C5 as stated, for the tombstones that delete_tuple made of non-empty tuples:
\* whenever such a tombstone exists before compact(), free_space() is strictly
\* greater after it.
C5_Original ==
    (/\ last.op = "compact"
     /\ \E j \in deleted : inserted[j + 1] # << >> /\ read_slot(prev, j).len = 0)
        => free_space(buf) > free_space(prev)

\* C5 amended: compact() never decreases free_space(); it strictly increases it
\* exactly when the tuple area held bytes of no live tuple before the call
\* (lower > 32 + the sum of the live tuple lengths), and by that many bytes.
C5_CompactFreeSpace ==
    last.op = "compact" =>
        /\ free_space(buf) >= free_space(prev)
        /\ free_space(buf) - free_space(prev)
              = header(prev).lower - (PageHeader_LEN + LiveLen(prev))
        /\ (free_space(buf) > free_space(prev))
              <=> (header(prev).lower > PageHeader_LEN + LiveLen(prev))

\* a compaction that reclaimed the bytes of a deleted tuple
C5_Witness ==
    /\ last.op = "compact"
    /\ deleted # {}
    /\ free_space(buf) > free_space(prev)

\* C6: slot_count() never decreases: it is the number of successful insert_tuple
\* calls so far, and delete_tuple, compact and failed inserts leave it unchanged.
C6_SlotCount ==
    /\ slot_count(buf) = Len(inserted)
    /\ slot_count(buf) >= slot_count(prev)
    /\ (last.op \in {"delete_tuple", "compact"} \/ ~last.ok)
          => slot_count(buf) = slot_count(prev)

\* a compaction after deletes on a page with at least two slots
C6_Witness ==
    /\ last.op = "compact"
    /\ Cardinality(deleted) >= 2
    /\ buf # prev

\* C7: insert_tuple(bytes) fails iff bytes.len() + 4 > free_space(), and a failed
\* insert leaves the whole page buffer unchanged.
C7_InsertOutOfSpace ==
    last.op = "insert_tuple" =>
        /\ ~last.ok <=> (Len(last.tuple) + Slot_SIZE > free_space(prev))
        /\ ~last.ok => buf = prev

\* an insert that failed although the free space would have held a slot entry
C7_Witness ==
    /\ last.op = "insert_tuple" /\ ~last.ok
    /\ free_space(prev) >= Slot_SIZE

\* C8: delete_tuple(slot_no) fails iff slot_no >= slot_count(), leaving the page
\* unchanged; on an already dead slot it succeeds and leaves the buffer
\* unchanged, so deleting a slot twice is the same as deleting it once.
C8_DeleteOutOfRange ==
    /\ last.op = "delete_tuple" =>
          /\ ~last.ok <=> (last.slot_no >= slot_count(prev))
          /\ ~last.ok => buf = prev
          /\ (last.ok /\ read_slot(prev, last.slot_no).len = 0) => buf = prev
    /\ \A i \in SlotArgs :
          LET once == delete_tuple(buf, i)
          IN  delete_tuple(once.buf, i) = [ok |-> once.ok, buf |-> once.buf]

\* a second delete of a slot that an earlier call had deleted
C8_Witness ==
    /\ last.op = "delete_tuple" /\ last.ok
    /\ last.slot_no \in deleted
    /\ read_slot(prev, last.slot_no).len = 0
    /\ inserted[last.slot_no + 1] # << >>

\* C9: after new_empty and after every insert_tuple, delete_tuple and compact
\* call, successful or not, verify_checksum() is true.
C9_ChecksumValid == verify_checksum(buf)

\* a compact that changed a page on which tuples were inserted and deleted
C9_Witness ==
    /\ last.op = "compact"
    /\ buf # prev
    /\ inserted # << >> /\ deleted # {}
    /\ verify_checksum(buf)

\* ----------------------------------------------- disk manager properties
\* C10: after write_page(p) of a page with a valid checksum, read_page of
\* p.page_id() succeeds and returns p's buffer, as long as no later write
\* targets the same PageId (whatever else was allocated, read or written since).
C10_RoundTrip ==
    /\ \A pid \in DiskPageIds :
          written[pid].set =>
              LET r == read_page(disk, pid)
              IN  r.ok /\ r.page = written[pid].buf
    /\ (dlast.op = "read_page" /\ written[dlast.pid].set)
          => (dlast.ok /\ dlast.page = written[dlast.pid].buf)

\* a page read back while another page of its file and another file hold data
C10_Witness ==
    /\ dlast.op = "read_page" /\ dlast.ok
    /\ written[dlast.pid].set
    /\ dlast.pid = PageId_new(1, 0)
    /\ written[PageId_new(1, 1)].set
    /\ written[PageId_new(1, 1)].buf # written[PageId_new(1, 0)].buf
    /\ Len(disk[2].data) >= PAGE_SIZE


\* the positions at which two buffers of PAGE_SIZE bytes differ
DiffAt(a, b) == { i \in 0..(PAGE_SIZE - 1) : At(a, i) # At(b, i) }

\* C11: read_page never returns a page whose verify_checksum() is false: when
\* the stored bytes of a page do not verify, in particular when exactly one
\* byte in [4, PAGE_SIZE) of a valid written page was changed on disk,
\* read_page returns a Checksum error instead of a page.
C11_ChecksumError ==
    /\ (dlast.op = "read_page" /\ dlast.ok) => verify_checksum(dlast.page)
    /\ \A pid \in DiskPageIds :
          LET stored == StoredPage(disk, pid)
              r == read_page(disk, pid)
          IN  /\ (stored # << >> /\ ~verify_checksum(stored))
                    => (~r.ok /\ r.err = "Checksum")
              /\ (/\ written[pid].set
                  /\ stored # << >>
                  /\ Cardinality(DiffAt(stored, written[pid].buf)) = 1
                  /\ DiffAt(stored, written[pid].buf) \subseteq 4..(PAGE_SIZE - 1))
                    => (~r.ok /\ r.err = "Checksum")

\* a read of a valid written page of which one byte was changed on disk
C11_Witness ==
    /\ dlast.op = "read_page" /\ ~dlast.ok /\ dlast.err = "Checksum"
    /\ written[dlast.pid].set
    /\ StoredPage(disk, dlast.pid) # << >>
    /\ Cardinality(DiffAt(StoredPage(disk, dlast.pid), written[dlast.pid].buf)) = 1
    /\ DiffAt(StoredPage(disk, dlast.pid), written[dlast.pid].buf) \subseteq 4..(PAGE_SIZE - 1)

\* the offsets of file f
Offsets(d, f) == 0..(Len(d[f].data) - 1)

\* what read_page returns for a page is a function of the bytes stored for it:
\* the stored page if its checksum verifies, an error otherwise
C23_ReadsStored ==
    \A pid \in DiskPageIds :
        Let(read_page(disk, pid), LAMBDA r :
            IF StoredPage(disk, pid) = << >> THEN ~r.ok /\ r.err = "Io"
            ELSE IF r.ok THEN r.page = StoredPage(disk, pid)
            ELSE r.err = "Checksum" /\ ~verify_checksum(StoredPage(disk, pid)))

\* a call of write_page(p) stores p's buffer at offset page_no * PAGE_SIZE of
\* the file of p's page_id and changes no other byte that was stored: the file
\* keeps every offset it had, and the other bytes of that file, the other
\* stored pages and the other files are as before
C23_Step ==
    dlast'.op = "write_page" =>
        LET pid == dlast'.pid
            f == file_id(pid)
            off == page_no(pid) * PAGE_SIZE
        IN  /\ pid = page_id(dlast'.page)
            /\ StoredPage(disk', pid) = dlast'.page
            /\ Offsets(disk, f) \subseteq Offsets(disk', f)
            /\ \A k \in Offsets(disk, f) \ (off..(off + PAGE_SIZE - 1)) :
                  At(disk'[f].data, k) = At(disk[f].data, k)
            /\ \A g \in FileIds \ {f} : disk'[g] = disk[g]
            /\ \A other_pid \in DiskPageIds \ {pid} :
                  StoredPage(disk, other_pid) # << >> =>
                      StoredPage(disk', other_pid) = StoredPage(disk, other_pid)

\* C23: write_page(p) changes only the PAGE_SIZE bytes at offset
\* page_no * PAGE_SIZE of the file selected by the page_id in p's buffer: every
\* other previously written page of that file and every page of every other
\* file is stored, and so reads back, with the same bytes as before, in any
\* order of writes and reads.
C23_WritePageFrame == [](C23_ReadsStored) /\ [][C23_Step]_vars

\* page 0 of file 1 was written after page 1 of that file and a page of file 2,
\* which are still stored as they were written
C23_Witness ==
    /\ dlast.op = "write_page" /\ dlast.pid = PageId_new(1, 0)
    /\ StoredPage(disk, PageId_new(1, 0)) = dlast.page
    /\ written[PageId_new(1, 1)].set
    /\ StoredPage(disk, PageId_new(1, 1)) = written[PageId_new(1, 1)].buf
    /\ written[PageId_new(2, 0)].set
    /\ StoredPage(disk, PageId_new(2, 0)) = written[PageId_new(2, 0)].buf

\* a call of read_page leaves every file as it was: missing or with its bytes
C25_Step == dlast'.op = "read_page" => disk' = disk

\* C25: read_page never changes the data directory: whether it succeeds or
\* fails it creates no file and modifies no stored byte, so a read_page against
\* a file_id that was never allocated or written leaves that file non-existent.
C25_ReadPageFrame == [][C25_Step]_vars

\* C29: when the data directory is modified only through one FsDiskManager's
\* allocate_page and write_page, with pages whose checksum is valid, every page
\* that read_page(pid) returns has page_id() = pid, and a page that was
\* allocated, or skipped over by a write to a higher page number, but never
\* written is all zero bytes and read_page fails on it with a checksum error.
C29_ReadPageId ==
    /\ (dlast.op = "read_page" /\ dlast.ok) => page_id(dlast.page) = dlast.pid
    /\ \A pid \in DiskPageIds :
          Let(read_page(disk, pid), LAMBDA r :
              /\ r.ok => page_id(r.page) = pid
              /\ (StoredPage(disk, pid) # << >> /\ ~written[pid].set) =>
                    /\ StoredPage(disk, pid) = Zeros(PAGE_SIZE)
                    /\ ~r.ok /\ r.err = "Checksum")

\* read_page failed with a checksum error on page 0 of file 1, which a write
\* of page 1 skipped over, and page 1 reads back with its own page id
C29_Witness ==
    /\ dlast.op = "read_page" /\ dlast.pid = PageId_new(1, 0)
    /\ ~dlast.ok /\ dlast.err = "Checksum"
    /\ ~written[PageId_new(1, 0)].set
    /\ allocated[1] = << >> /\ 1 \in grown
    /\ read_page(disk, PageId_new(1, 1)).ok
    /\ page_id(read_page(disk, PageId_new(1, 1)).page) = PageId_new(1, 1)

\* the page numbers 0, 1, .., n - 1
Upto(n) == [k \in 1..n |-> k - 1]

\* the allocations of a file that only allocate_page extended are numbered
\* 0, 1, 2, ..; those of any file are strictly increasing
C12_Numbering ==
    \A f \in FileIds :
        /\ f \notin grown => allocated[f] = Upto(Len(allocated[f]))
        /\ \A i, j \in 1..Len(allocated[f]) : i < j => allocated[f][i] < allocated[f][j]

\* a call of allocate_page on file f returns PageId(f, L / PAGE_SIZE) for the
\* length L of f before the call, appends PAGE_SIZE zero bytes to f and leaves
\* every other file alone
C12_Step ==
    \A f \in FileIds :
        (dlast'.op = "allocate_page" /\ allocated'[f] # allocated[f]) =>
            LET L == Len(disk[f].data)
            IN  /\ dlast'.ok
                /\ dlast'.pid = PageId_new(f, L \div PAGE_SIZE)
                /\ disk'[f].exists
                /\ disk'[f].data = disk[f].data \o Zeros(PAGE_SIZE)
                /\ \A g \in FileIds \ {f} : disk'[g] = disk[g] /\ allocated'[g] = allocated[g]

\* C12: on a FsDiskManager used sequentially, allocate_page(f) returns
\* PageId(f, L / PAGE_SIZE) for the current length L of file f (0 if missing)
\* and extends that file by exactly PAGE_SIZE bytes; starting from a missing
\* file, successive allocations for one file_id return 0, 1, 2, .., whatever
\* is allocated for other file_ids in between.
C12_AllocatePage == [](C12_Numbering) /\ [][C12_Step]_vars

\* two allocations for file 1 with an allocation for file 2 made before the
\* second of them
C12_Witness ==
    /\ dlast.op = "allocate_page" /\ dlast.pid = PageId_new(1, 1)
    /\ allocated[1] = << 0, 1 >>
    /\ allocated[2] = << 0 >>
    /\ grown = {}

\* the completed calls on file f, in order of completion
CallsOn(f) == SelectSeq(alog, LAMBDA c : c.f = f)

\* C13: allocate_page is not safe under concurrent allocators: when the steps
\* of two calls on one file interleave, both can return the same PageId while
\* the file grows by two pages; the PageIds allocated on a file are unique,
\* and numbered 0, 1, 2, .., when the calls on that file are serialized.
C13_ConcurrentAllocate ==
    /\ \A f \in FileIds :
          LET cs == CallsOn(f)
          IN  /\ Len(disk[f].data) = PAGE_SIZE * Len(cs)
              /\ \A i, j \in 1..Len(cs) :
                    (i < j /\ cs[i].pid = cs[j].pid) => (cs[i].mixed /\ cs[j].mixed)
              /\ (\A i \in 1..Len(cs) : ~cs[i].mixed)
                    => \A i \in 1..Len(cs) : cs[i].pid = PageId_new(f, i - 1)
              /\ LET m == alloc_measure(disk, f)
                      r == alloc_append(m.disk, f, m.len)
                      a == allocate_page(disk, f)
                  IN  r.pid = a.pid /\ r.disk = a.disk

\* two interleaved calls that returned the same PageId and left two pages
C13_Witness ==
    \E i, j \in 1..Len(alog) :
        /\ i < j
        /\ alog[i].pid = alog[j].pid
        /\ alog[i].p # alog[j].p
        /\ Len(disk[alog[i].f].data) = 2 * PAGE_SIZE

\* ------------------------------------------------------------ sequential scan
\* the last call executed a SeqScan plan
IsScan(q) == q.op = "execute" /\ q.plan.p = "SeqScan"

\* the smallest page number of file f on which read_page fails
FirstFailure(d, f) ==
    CHOOSE k \in 0..(Len(d[f].data) \div PAGE_SIZE) :
        /\ ~read_page(d, PageId_new(f, k)).ok
        /\ \A j \in 0..(k - 1) : read_page(d, PageId_new(f, j)).ok

RECURSIVE Flatten(_)
Flatten(ss) == IF ss = << >> THEN << >> ELSE Head(ss) \o Flatten(Tail(ss))

\* the tuples of the live slots of a page, in slot order
LiveTuples(page) ==
    LET slots == [i \in 1..slot_count(page) |-> read_tuple(page, i - 1)]
        live == SelectSeq(slots, LAMBDA t : t.some)
    IN  [i \in 1..Len(live) |-> live[i].bytes]

\* the tuples of the live slots of pages 0..k-1 of file f, in page and slot order
LiveTuplesBefore(d, f, k) ==
    Flatten([j \in 1..k |-> LiveTuples(read_page(d, PageId_new(f, j - 1)).page)])

\* what deserialize_row makes of each of them
ScannedRows(d, f, schema) ==
    LET ts == LiveTuplesBefore(d, f, FirstFailure(d, f))
    IN  [i \in 1..Len(ts) |-> deserialize_row(ts[i], schema)]

\* C14 as stated: SeqScan returns Ok with exactly the rows of the live slots of
\* pages 0..k-1 of file 1, in page and slot order, k being the smallest page
\* number on which read_page fails.
C14_Original ==
    IsScan(qlast) =>
        LET rs == ScannedRows(disk, 1, qlast.plan.schema)
        IN  /\ qlast.res.ok
            /\ qlast.res.rows = [i \in 1..Len(rs) |-> rs[i].v]

\* C14: with k the smallest page number of file 1 on which read_page fails,
\* for whatever reason, SeqScan returns Ok with exactly the rows of the live
\* slots of pages 0..k-1, in page and slot order, and the plan's schema,
\* provided every one of those tuples deserializes under the schema; the read
\* failure is not reported and no page after k contributes. If one of the
\* tuples does not deserialize, SeqScan fails with the error of the first such.
C14_SeqScan ==
    IsScan(qlast) =>
        LET rs == ScannedRows(disk, 1, qlast.plan.schema)
            bad == { i \in 1..Len(rs) : ~rs[i].ok }
        IN  IF bad = {}
            THEN /\ qlast.res.ok
                 /\ qlast.res.rows = [i \in 1..Len(rs) |-> rs[i].v]
                 /\ qlast.res.schema = qlast.plan.schema
            ELSE /\ ~qlast.res.ok
                 /\ ~qlast.res.panic
                 /\ \E i \in bad : /\ \A j \in bad : i <= j
                                   /\ qlast.res.err = rs[i].err

\* a scan that returned the rows of two pages
C14_Witness ==
    /\ IsScan(qlast)
    /\ qlast.res.ok
    /\ FirstFailure(disk, 1) = 2
    /\ Len(qlast.res.rows) = 4

\* the errors of deserialize_row for a buffer that is too short
TruncatedTuple ==
    { "Not enough data for integer column", "Not enough data for varchar length",
      "Not enough data for varchar content", "Not enough data for boolean column" }

\* how many bytes the columns from the k-th on need in data from offset on:
\* [short, end], short when data ends before the end of a column
RECURSIVE Needed(_, _, _, _)
Needed(data, columns, k, offset) ==
    IF k > Len(columns) THEN [short |-> FALSE, end |-> offset]
    ELSE LET t == columns[k].data_type.t
             left == Len(data) - offset
             prefix == SubSeq(data, offset + 1, offset + 4)
         IN  CASE t = "Integer" ->
                     IF left < 4 THEN [short |-> TRUE, end |-> offset]
                     ELSE Needed(data, columns, k + 1, offset + 4)
               [] t = "Boolean" ->
                     IF left < 1 THEN [short |-> TRUE, end |-> offset]
                     ELSE Needed(data, columns, k + 1, offset + 1)
               [] t = "Varchar" ->
                     IF left < 4 THEN [short |-> TRUE, end |-> offset]
                     ELSE IF prefix[4] # 0 \/ prefix[3] # 0
                             \/ prefix[1] + 256 * prefix[2] > left - 4
                     THEN [short |-> TRUE, end |-> offset + 4]
                     ELSE Needed(data, columns, k + 1,
                                 offset + 4 + prefix[1] + 256 * prefix[2])

\* C22: when the bytes of a live tuple that the scan reaches are too short for
\* the scan schema, SeqScan fails the whole query, without rows, and with a
\* truncated-tuple error when that tuple is the first that does not
\* deserialize; bytes after the last schema column are ignored: when no tuple
\* is too short the rows are those of the tuples cut to the bytes the schema
\* needs.
C22_TruncatedTuple ==
    IsScan(qlast) =>
        LET schema == qlast.plan.schema
            ts == LiveTuplesBefore(disk, 1, FirstFailure(disk, 1))
            need == [i \in 1..Len(ts) |-> Needed(ts[i], schema.columns, 1, 0)]
            short == { i \in 1..Len(ts) : need[i].short }
            bad == { i \in 1..Len(ts) : ~deserialize_row(ts[i], schema).ok }
        IN  /\ short \subseteq bad
            /\ short # {} =>
                  /\ ~qlast.res.ok /\ ~qlast.res.panic
                  /\ qlast.res.rows = << >>
                  /\ (\E i \in short : \A j \in bad : i <= j)
                        => qlast.res.err \in TruncatedTuple
            /\ bad = {} =>
                  /\ qlast.res.ok
                  /\ qlast.res.rows =
                        [i \in 1..Len(ts) |->
                            deserialize_row(SubSeq(ts[i], 1, need[i].end), schema).v]

\* a scan under an Integer schema that decoded the four-byte tuple of page 0
\* and failed on a one-byte tuple of page 1
C22_Witness ==
    /\ IsScan(qlast)
    /\ qlast.plan.schema = IdSchema
    /\ FirstFailure(disk, 1) = 2
    /\ LiveTuplesBefore(disk, 1, 2) = << i32_to_le_bytes(5), << 0 >>, << 1 >> >>
    /\ ~qlast.res.ok
    /\ qlast.res.err = "Not enough data for integer column"
    /\ qlast.res.rows = << >>

\* the data directory with file f replaced
WithFile(d, f, file) == [d EXCEPT ![f] = file]

\* C17: the rows SeqScan produces do not depend on the table name: on the same
\* data directory every table name gives the same result, whose rows all come
\* from file 1; whatever file 2 holds (nothing, its contents, a copy of
\* file 1) the result is the same.
C17_TableNameIgnored ==
    IsScan(qlast) =>
        /\ \A i \in 1..Len(ScanTables) :
              ResultOf(execute(SeqScan(ScanTables[i], qlast.plan.schema), disk)) = qlast.res
        /\ \A file \in { NoFile, disk[1], disk[2] } :
              ResultOf(execute(qlast.plan, WithFile(disk, 2, file))) = qlast.res
        /\ qlast.res.ok =>
              LET rs == ScannedRows(disk, 1, qlast.plan.schema)
              IN  qlast.res.rows = [i \in 1..Len(rs) |-> rs[i].v]

\* a scan of table "orders" that returned the row of file 1 while file 2 holds
\* a readable page with another row
C17_Witness ==
    /\ IsScan(qlast)
    /\ qlast.plan.table_name = "orders"
    /\ qlast.res.ok
    /\ qlast.res.rows = << << Value_Boolean(FALSE) >> >>
    /\ read_page(disk, PageId_new(2, 0)).ok
    /\ LiveTuples(read_page(disk, PageId_new(2, 0)).page) = << << 1 >> >>

\* ------------------------------------------------------------ filter and limit
\* the last call executed a plan whose root is a Filter, a Limit
IsFilter(q) == q.op = "execute" /\ q.plan.p = "Filter"
IsLimit(q) == q.op = "execute" /\ q.plan.p = "Limit"

\* the result of the input of the plan last executed
InputResult(q) == ResultOf(execute(q.plan.input, disk))

\* the value of the predicate on each input row
PredicateValues(q) ==
    LET in == InputResult(q)
    IN  [i \in 1..Len(in.rows) |->
            evaluate_expression_with_schema(q.plan.predicate, in.rows[i], in.schema)]

IsBoolean(r) == r.ok /\ r.v.t = "Boolean"

\* C18: when the predicate evaluates to a boolean on every input row, Filter
\* returns exactly the input rows on which it evaluates to Boolean(true), in
\* input order and unmodified, with the unchanged input schema; the rows on
\* which it evaluates to Boolean(false) are dropped.
C18_Filter ==
    (IsFilter(qlast) /\ InputResult(qlast).ok) =>
        LET in == InputResult(qlast)
            vs == PredicateValues(qlast)
            kept == { i \in 1..Len(vs) : vs[i].v = Value_Boolean(TRUE) }
            nth(k) == CHOOSE i \in kept : Cardinality({ j \in kept : j <= i }) = k
        IN  (\A i \in 1..Len(vs) : IsBoolean(vs[i])) =>
                /\ qlast.res.ok
                /\ qlast.res.rows = [k \in 1..Cardinality(kept) |-> in.rows[nth(k)]]
                /\ qlast.res.schema = in.schema

\* a filter on a column that kept the first and the last of four rows and
\* dropped the two between them
C18_Witness ==
    /\ IsFilter(qlast)
    /\ qlast.plan.predicate.e = "Column"
    /\ InputResult(qlast).ok
    /\ Len(InputResult(qlast).rows) = 4
    /\ PredicateValues(qlast)[1].v = Value_Boolean(TRUE)
    /\ PredicateValues(qlast)[2].v = Value_Boolean(FALSE)
    /\ PredicateValues(qlast)[3].v = Value_Boolean(FALSE)
    /\ PredicateValues(qlast)[4].v = Value_Boolean(TRUE)
    /\ qlast.res.ok
    /\ Len(qlast.res.rows) = 2

\* the predicates that evaluate to a non-boolean value under a schema: a
\* non-boolean literal, a reference to an Integer or Varchar column, an
\* arithmetic or concatenation expression
NonBooleanPredicate(expr, schema) ==
    CASE expr.e = "Literal" -> expr.value.t # "Boolean"
      [] expr.e = "Column" ->
            LET k == Position(schema.columns, expr.name, 1)
            IN  k # 0 /\ schema.columns[k].data_type.t # "Boolean"
      [] expr.e = "BinaryOp" -> expr.op \in {"Add", "Sub", "Mul", "Div"}

\* C19: executing a Filter whose predicate evaluates to a non-boolean value
\* fails the query, however many rows the input contains.
C19_NonBooleanPredicate ==
    (/\ IsFilter(qlast)
     /\ InputResult(qlast).ok
     /\ NonBooleanPredicate(qlast.plan.predicate, InputResult(qlast).schema))
        => ~qlast.res.ok

\* C20: Limit returns exactly the first min(n, number of input rows) rows of
\* its input, in input order and unmodified, with the input schema; n = 0
\* yields no rows.
C20_Limit ==
    (IsLimit(qlast) /\ InputResult(qlast).ok) =>
        LET in == InputResult(qlast)
            n == qlast.plan.limit
            m == IF n <= Len(in.rows) THEN n ELSE Len(in.rows)
        IN  /\ qlast.res.ok
            /\ Len(qlast.res.rows) = m
            /\ \A i \in 1..m : qlast.res.rows[i] = in.rows[i]
            /\ qlast.res.schema = in.schema
            /\ n = 0 => qlast.res.rows = << >>

\* a limit of 2 that cut an input of four rows
C20_Witness ==
    /\ IsLimit(qlast)
    /\ qlast.plan.limit = 2
    /\ InputResult(qlast).ok
    /\ Len(InputResult(qlast).rows) = 4
    /\ qlast.res.rows = SubSeq(InputResult(qlast).rows, 1, 2)

\* --------------------------------------------------------------- planning
\* the select lists that hold a Wildcard and an explicit expression
MixedList(items) ==
    /\ AnyWildcard(items)
    /\ \E i \in 1..Len(items) : items[i] # Wildcard

\* C16: QueryPlanner::plan fails for every SELECT statement whose select list
\* holds both a Wildcard and an explicit expression; a plan is produced only
\* when the list is all-wildcard or wildcard-free.
C16_MixedListRejected ==
    planned.op = "plan" =>
        /\ MixedList(planned.stmt.select_list) => ~planned.res.ok
        /\ planned.res.ok => ~MixedList(planned.stmt.select_list)

\* ---------------------------------------------------------------- parsing
\* C15: parse_sql returns a parse error for every input in which text remains
\* after the longest prefix matching the SELECT grammar and the whitespace
\* that follows it; it never returns a Statement while leaving part of the
\* input unconsumed.
C15_TrailingInputRejected ==
    (parsed.op = "parse" /\ parsed.res.ok) => statement(parsed.input).rest = << >>

\* the slot numbers of the live slots of a page
LiveSlots(b) == { j \in 0..(slot_count(b) - 1) : read_slot(b, j).len # 0 }

\* C27: after compact(), lower is 32 plus the sum of the lengths of the live
\* tuples, upper is unchanged, every slot keeps its length, and the live tuples
\* lie back to back from offset 32 in ascending slot order (each live slot
\* starts at 32 plus the lengths of the live slots before it); so free_space()
\* is PAGE_SIZE - 32 - 4 * slot_count() - (the sum of the live tuple lengths).
C27_CompactLayout ==
    last.op = "compact" =>
        /\ header(buf).lower = PageHeader_LEN + LiveLen(buf)
        /\ header(buf).upper = header(prev).upper
        /\ slot_count(buf) = slot_count(prev)
        /\ \A j \in 0..(slot_count(buf) - 1) :
              read_slot(buf, j).len = read_slot(prev, j).len
        /\ \A j \in LiveSlots(buf) :
              read_slot(buf, j).off = PageHeader_LEN + SumLen(buf, j)
        /\ free_space(buf)
              = PAGE_SIZE - PageHeader_LEN - Slot_SIZE * slot_count(buf) - LiveLen(buf)

\* a compaction that moved two live tuples down over the bytes of a deleted one
C27_Witness ==
    /\ last.op = "compact"
    /\ Cardinality(LiveSlots(buf)) >= 2
    /\ \A j \in LiveSlots(buf) : read_slot(buf, j).off < read_slot(prev, j).off
    /\ \E j \in deleted : j < slot_count(buf) /\ j \notin LiveSlots(buf)

\* the byte range [off, off + len) of slot j
SlotRange(b, j) ==
    { k \in 0..(PAGE_SIZE - 1) :
        read_slot(b, j).off <= k /\ k < read_slot(b, j).off + read_slot(b, j).len }

\* the live slots' byte ranges are pairwise disjoint and lie inside [32, lower)
LiveRangesDisjoint(b) ==
    /\ \A j \in LiveSlots(b) : SlotRange(b, j) \subseteq PageHeader_LEN..(header(b).lower - 1)
    /\ \A i, j \in LiveSlots(b) : i # j => SlotRange(b, i) \cap SlotRange(b, j) = {}

\* C28: after any interleaving of insert_tuple, delete_tuple and compact calls
\* on a page from new_empty, read_tuple(i) returns the bytes of the i-th
\* successful insert if slot i was not deleted and None otherwise, and the
\* byte ranges of the live slots are pairwise disjoint and inside [32, lower).
C28_HeapRefinesMap ==
    /\ \A i \in Probes :
          read_tuple(buf, i) = IF i < Len(inserted) /\ i \notin deleted
                               THEN Some(inserted[i + 1]) ELSE None
    /\ LiveRangesDisjoint(buf)

\* ------------------------------------------------------- Page properties
\* C24: after every call of a Page mutator (write_header, set_lsn, set_lower,
\* set_upper, write_u16) on a page whose checksum was valid, verify_checksum()
\* is still true.
C24_MutatorsRecompute ==
    (last.op \in PageMutators /\ verify_checksum(prev)) => verify_checksum(buf)

\* ------------------------------------------------- arithmetic properties
\* the last call executed the projection of one arithmetic operator on two
\* integer literals over at least one row
IsArith(q) ==
    /\ q.op = "execute" /\ q.plan.p = "Projection"
    /\ Len(q.plan.exprs) = 1
    /\ q.plan.exprs[1].e = "BinaryOp"
    /\ q.plan.exprs[1].left.e = "Literal" /\ q.plan.exprs[1].right.e = "Literal"
    /\ InputResult(q).ok /\ InputResult(q).rows # << >>

\* evaluating expr on the row divides an Integer by the Integer 0: in the left
\* operand, else in the right one, else in the operation itself
RECURSIVE DividesByZero(_, _, _)
DividesByZero(expr, row, schema) ==
    /\ expr.e = "BinaryOp"
    /\ \/ DividesByZero(expr.left, row, schema)
       \/ /\ evaluate_expression_with_schema(expr.left, row, schema).ok
          /\ \/ DividesByZero(expr.right, row, schema)
             \/ LET l == evaluate_expression_with_schema(expr.left, row, schema)
                    r == evaluate_expression_with_schema(expr.right, row, schema)
                IN  /\ r.ok /\ expr.op = "Div"
                    /\ l.v.t = "Integer" /\ r.v.t = "Integer" /\ r.v.i = 0

\* the evaluations a Projection or a Filter makes on its input rows, in order:
\* whether each divides by zero, and whether it returns a value
Evaluations(plan, rows, schema) ==
    IF plan.p = "Projection"
    THEN LET n == Len(plan.exprs)
         IN  [i \in 1..(Len(rows) * n) |->
                LET row == rows[((i - 1) \div n) + 1]
                    expr == plan.exprs[((i - 1) % n) + 1]
                IN  [zero |-> DividesByZero(expr, row, schema),
                     ok |-> evaluate_expression_with_schema(expr, row, schema).ok]]
    ELSE [i \in 1..Len(rows) |->
            [zero |-> /\ plan.predicate.e = "BinaryOp"
                      /\ \/ DividesByZero(plan.predicate.left, rows[i], schema)
                         \/ /\ evaluate_expression_with_schema(
                                    plan.predicate.left, rows[i], schema).ok
                            /\ DividesByZero(plan.predicate.right, rows[i], schema),
             ok |-> evaluate_predicate_with_schema(plan.predicate, rows[i], schema).ok]]

\* executing the plan on the data directory d evaluates a division by zero
RECURSIVE EvaluatesDivisionByZero(_, _)
EvaluatesDivisionByZero(plan, d) ==
    CASE plan.p = "SeqScan" -> FALSE
      [] plan.p = "Limit" -> EvaluatesDivisionByZero(plan.input, d)
      [] OTHER ->
            \/ EvaluatesDivisionByZero(plan.input, d)
            \/ LET in == execute(plan.input, d)
                   evals == Evaluations(plan, in.rows, in.schema)
               IN  /\ in.ok
                   /\ \E i \in 1..Len(evals) :
                         evals[i].zero /\ \A j \in 1..(i - 1) : evals[j].ok

\* C21: Div on two Integer operands whose right operand is 0 yields the
\* division-by-zero error and never a value, and a query that evaluates such
\* a division fails as a whole with that error: no rows are returned.
C21_DivisionByZero ==
    /\ \A k \in 1..Len(IntArgs) :
          evaluate_binary_op_value(Value_Integer(IntArgs[k]), "Div", Value_Integer(0))
              = Err("Division by zero")
    /\ (qlast.op = "execute" /\ EvaluatesDivisionByZero(qlast.plan, disk)) =>
          /\ ~qlast.res.ok /\ ~qlast.res.panic
          /\ qlast.res.err = "Division by zero"
          /\ qlast.res.rows = << >>

\* the projection of id and 10 / id failed on the second row, id = 0, after
\* the first row, id = 5, was projected
C21_Witness ==
    /\ qlast.op = "execute"
    /\ qlast.plan = Projection(<< Expr_Column("id"), TenById >>, SeqScan("users", IdSchema))
    /\ InputResult(qlast).rows = << << Value_Integer(5) >>, << Value_Integer(0) >> >>
    /\ EvaluatesDivisionByZero(qlast.plan, disk)
    /\ ~qlast.res.ok
    /\ qlast.res.err = "Division by zero"

\* C30: evaluating Add, Sub, Mul or Div on any two Integer operands returns
\* to the caller, with an Integer value or with an error value; no operand
\* pair, including results outside the i32 range and i32::MIN / -1, ends the
\* evaluation in another way.
C30_ArithmeticReturns ==
    /\ IsArith(qlast) => ~qlast.res.panic
    /\ \A l, r \in { IntArgs[k] : k \in 1..Len(IntArgs) } :
          \A k \in 1..Len(ArithOps) :
              ~IsPanic(evaluate_binary_op_value(Value_Integer(l), ArithOps[k],
                                                Value_Integer(r)))

\* ------------------------------------------------------ the planned query
\* the operator below a Limit, a Projection, a Filter at the root of the plan,
\* or the plan itself if the root is another operator
Below(kind, plan) == IF plan.p = kind THEN plan.input ELSE plan

\* the rows of the statement: of the rows the scan of the table returns, those
\* on which the WHERE predicate is true under the schema of the scan, each
\* projected on the select list unless it has a wildcard, and of these rows the
\* first as many as the LIMIT says
SelectedRows(select, scan) ==
    LET holds(i) == evaluate_predicate_with_schema(select.where_clause.v, scan.rows[i],
                                                   scan.schema)
        kept == { i \in 1..Len(scan.rows) : holds(i).ok /\ holds(i).v }
        nth(k) == CHOOSE i \in kept : Cardinality({ j \in kept : j <= i }) = k
        projected(row) ==
            IF AnyWildcard(select.select_list) THEN row
            ELSE [j \in 1..Len(select.select_list) |->
                    evaluate_expression_with_schema(select.select_list[j].expr, row,
                                                    scan.schema).v]
        n == IF select.limit.v < Cardinality(kept) THEN select.limit.v
             ELSE Cardinality(kept)
    IN  [k \in 1..n |-> projected(scan.rows[nth(k)])]

\* the WHERE predicate is a boolean on every scanned row and every expression
\* of the select list has a value on the rows it is true on
Evaluates(select, scan) ==
    \A i \in 1..Len(scan.rows) :
        LET holds == evaluate_predicate_with_schema(select.where_clause.v, scan.rows[i],
                                                    scan.schema)
        IN  /\ holds.ok
            /\ (holds.v /\ ~AnyWildcard(select.select_list)) =>
                  \A j \in 1..Len(select.select_list) :
                      evaluate_expression_with_schema(select.select_list[j].expr,
                                                      scan.rows[i], scan.schema).ok

\* C26: the plan of a SELECT with FROM is a Limit over a Projection over a
\* Filter over the SeqScan of the table, with the Limit present exactly for a
\* LIMIT clause, the Filter exactly for a WHERE clause and the Projection
\* exactly for a select list of expressions; so a statement with WHERE p and
\* LIMIT n returns the first n of the scanned rows that satisfy p, projected,
\* with p evaluated against the schema of the scan.
C26_PlanNesting ==
    /\ (planned.op = "plan" /\ planned.stmt.from.some) =>
          LET select == planned.stmt
              below_limit == Below("Limit", planned.res.v)
              below_projection == Below("Projection", below_limit)
              below_filter == Below("Filter", below_projection)
          IN  /\ planned.res.ok
              /\ planned.res.v.p = "Limit" <=> select.limit.some
              /\ planned.res.v.p = "Limit" => planned.res.v.limit = select.limit.v
              /\ below_limit.p = "Projection" <=> ~AnyWildcard(select.select_list)
              /\ below_limit.p = "Projection" =>
                    below_limit.exprs = [j \in 1..Len(select.select_list) |->
                                            select.select_list[j].expr]
              /\ below_projection.p = "Filter" <=> select.where_clause.some
              /\ below_projection.p = "Filter" =>
                    below_projection.predicate = select.where_clause.v
              /\ below_filter = SeqScan(select.from.v, get_table_schema(select.from.v).v)
    /\ (qlast.op = "execute" /\ planned.stmt.where_clause.some /\ planned.stmt.limit.some) =>
          LET select == planned.stmt
              scan == ResultOf(execute(Below("Filter", Below("Projection",
                                           Below("Limit", qlast.plan))), disk))
          IN  /\ qlast.plan = planned.res.v
              /\ (scan.ok /\ Evaluates(select, scan)) =>
                    /\ qlast.res.ok
                    /\ qlast.res.rows = SelectedRows(select, scan)

\* SELECT name FROM users WHERE id = 7 LIMIT 1 on the rows (5, 'a') and
\* (7, 'b') returned the name of the second row: the first row that satisfies
\* the predicate, which is not among the first 1 scanned rows, and whose id is
\* not in the projection
C26_Witness ==
    /\ qlast.op = "execute"
    /\ planned.stmt.select_list = << SelectItem_Expression(Expr_Column("name")) >>
    /\ planned.stmt.where_clause
          = Opt_Some(Expr_BinaryOp(Expr_Column("id"), "Eq", Expr_Literal(Value_Integer(7))))
    /\ planned.stmt.limit = Opt_Some(1)
    /\ qlast.plan.p = "Limit"
    /\ qlast.plan.input.p = "Projection"
    /\ qlast.plan.input.input.p = "Filter"
    /\ execute(qlast.plan.input.input.input, disk).rows
          = << << Value_Integer(5), Value_Varchar(<< 97 >>) >>,
               << Value_Integer(7), Value_Varchar(<< 98 >>) >> >>
    /\ qlast.res.ok
    /\ qlast.res.rows = << << Value_Varchar(<< 98 >>) >> >>
====
